---- MODULE Spec2Model ----
(***************************************************************************)
(* A model of the low-code-taro mini-program client:                       *)
(*   - the cart store      (src/src/stores/tabbar-selected.ts, useCartStore)*)
(*   - the HTTP wrapper    (src/unnamed/part_003, class HttpRequest)        *)
(*   - the product store   (src/src/stores/index.ts, useProductStore)      *)
(*   - the search bar      (src/src/components/SearchBar/index.vue)        *)
(*   - the user store      (src/src/stores/user.ts, useUserStore)          *)
(*   - the retry helper    (src/src/utils/index.ts, retry)                 *)
(* Each store/class is a state machine of its own; every specification     *)
(* runs one of them while the others rest in their constructed state.      *)
(***************************************************************************)
EXTENDS Integers, Sequences, FiniteSets, TLC

VARIABLES
    \* ---- cart store (useCartStore) ----
    items,          \* ref<CartItem[]>: the line items, in insertion order
    selectAll,      \* ref<boolean>: the "select all" flag
    now,            \* the reading Date.now() returns (milliseconds)
    thrown,         \* history: the last cart action threw Error('库存不足')
    addRun,         \* history: the current run of addToCart calls on one identity
    \* ---- HTTP wrapper (class HttpRequest) and the platform it drives ----
    defaultConfig,          \* this.defaultConfig
    requestInterceptors,    \* this.requestInterceptors
    responseInterceptors,   \* this.responseInterceptors
    errorInterceptors,      \* this.errorInterceptors
    token,                  \* device storage, key 'token'
    pc,                     \* where the one request() call in flight stands
    k,                      \* index of the next interceptor of the running chain
    callConfig,             \* the config the caller passed to request()
    mergedConfig,           \* the object mergedConfig refers to
    processedConfig,        \* the object processedConfig refers to
    aliased,                \* processedConfig and mergedConfig are the same object
    transportConfig,        \* what Taro.request was called with (<<>>: not called)
    transportResult,        \* history: what Taro.request settled with
    caught,                 \* history: the error the catch block received
    value,                  \* the response / error value being processed, then the result
    outcome,                \* "none" | "resolved" | "rejected"
    loadingVisible,         \* the platform's global loading indicator
    shows,                  \* Taro.showLoading calls made by the call
    hides,                  \* Taro.hideLoading calls made by the call
    toast,                  \* Taro.showToast calls made by the call (their titles)
    log,                    \* history: the call's interceptor and transport events
    \* ---- HTTP wrapper: the one upload() call in flight ----
    uploadPc,               \* where the upload() call stands
    uploadConfig,           \* the config object the caller passed, as it stands now
    uploadMerged,           \* upload's mergedConfig (its flags)
    uploadHeader,           \* the object upload's local header refers to
    uploadAlias,            \* which object that is: the caller's, the default's, a new one
    uploadSent,             \* what Taro.uploadFile was called with (<<>>: not called)
    uploadResult,           \* what the call resolved or rejected with
    uploadToast,            \* the title of the toast the call showed ("": none)
    \* ---- product store (useProductStore) ----
    productList,            \* ref<Product[]>
    searchKeyword,          \* ref<string>
    searchFilters,          \* ref<SearchFilters>
    pagination,             \* ref<Pagination>
    \* ---- search bar (SearchBar/index.vue) and the device storage it writes ----
    searchHistory,          \* device storage, key 'searchHistory' (<<>>: no such key)
    calls,                  \* the addToSearchHistory calls in flight
    searchCount,            \* history: the searches submitted so far
    lastSearched,           \* history: keyword -> the number of its latest search
    overlapped,             \* history: a search started while another was in flight
    \* ---- user store (useUserStore) ----
    addressList,            \* ref<Address[]>
    addressToast,           \* the title of the last Taro.showToast of the user store
    userInfo,               \* ref<UserInfo | null>
    isLoggedIn,             \* ref<boolean>
    orderStats,             \* ref<OrderStats>
    storedUserInfo,         \* device storage, key 'userInfo' (<<>>: no such key)
    storedLoginStatus,      \* device storage, key 'isLoggedIn' (<<>>: no such key)
    loginPc,                \* where the login() call stands
    mockUserInfo,           \* the mockUserInfo of the login() call
    logoutPc,               \* where the logout() call stands
    checkPc,                \* where the checkLoginStatus() call stands
    checkReads,             \* what its two storage reads settled with (<<>>: pending)
    \* ---- retry helper (utils/index.ts), one call ----
    retryPc,                \* where the call stands: idle, fn, sleep, resolved, rejected
    retryArgs,              \* the arguments maxRetries and delay
    retryI,                 \* the loop variable i
    lastError,              \* let lastError
    retryResult,            \* what the call resolved or rejected with
    invocations,            \* history: how many times fn was invoked
    retryHistory            \* history: the settled fn() calls and the finished sleeps

cartVars == <<items, selectAll, now, thrown, addRun>>

httpVars == <<defaultConfig, requestInterceptors, responseInterceptors, errorInterceptors,
              token, pc, k, callConfig, mergedConfig, processedConfig, aliased,
              transportConfig, transportResult, caught, value, outcome,
              loadingVisible, shows, hides, toast, log>>

uploadVars == <<uploadPc, uploadConfig, uploadMerged, uploadHeader, uploadAlias,
                uploadSent, uploadResult, uploadToast>>

productVars == <<productList, searchKeyword, searchFilters, pagination>>

searchVars == <<searchHistory, calls, searchCount, lastSearched, overlapped>>

userVars == <<addressList, addressToast>>

loginVars == <<userInfo, isLoggedIn, orderStats, storedUserInfo, storedLoginStatus,
               loginPc, mockUserInfo, logoutPc, checkPc, checkReads>>

retryVars == <<retryPc, retryArgs, retryI, lastError, retryResult, invocations, retryHistory>>

\* What the actions of one store leave alone: the other stores
exceptCart == <<httpVars, uploadVars, productVars, searchVars, userVars, loginVars, retryVars>>

exceptHttp == <<cartVars, uploadVars, productVars, searchVars, userVars, loginVars, retryVars>>

exceptProduct == <<cartVars, httpVars, uploadVars, searchVars, userVars, loginVars, retryVars>>

exceptSearch == <<cartVars, httpVars, uploadVars, productVars, userVars, loginVars, retryVars>>

exceptUser == <<httpVars, uploadVars, productVars, searchVars, loginVars, retryVars>>

exceptLogin == <<cartVars, httpVars, uploadVars, productVars, searchVars, retryVars>>

exceptRetry == <<cartVars, httpVars, uploadVars, productVars, searchVars, userVars, loginVars>>

exceptUpload == <<cartVars, productVars, searchVars, userVars, loginVars, retryVars>>

vars == <<items, selectAll, now, thrown, addRun,
          defaultConfig, requestInterceptors, responseInterceptors, errorInterceptors,
          token, pc, k, callConfig, mergedConfig, processedConfig, aliased,
          transportConfig, transportResult, caught, value, outcome,
          loadingVisible, shows, hides, toast, log,
          uploadPc, uploadConfig, uploadMerged, uploadHeader, uploadAlias,
          uploadSent, uploadResult, uploadToast,
          productList, searchKeyword, searchFilters, pagination,
          searchHistory, calls, searchCount, lastSearched, overlapped,
          addressList, addressToast,
          userInfo, isLoggedIn, orderStats, storedUserInfo, storedLoginStatus,
          loginPc, mockUserInfo, logoutPc, checkPc, checkReads,
          retryPc, retryArgs, retryI, lastError, retryResult, invocations, retryHistory>>

\* ------------------------------------------------------------------ bounds
\* Largest quantity a caller passes to addToCart / updateQuantity.
MaxQty == 2
\* Largest clock reading explored.
MaxClock == 1
\* Largest number of interceptors registered after construction (all three lists).
MaxExtra == 2
\* Largest number of products one load brings.
MaxProducts == 2
\* Largest number of searches submitted in a run.
MaxSearches == 3
\* Largest number of addToSearchHistory calls in flight at once.
MaxInFlight == 2
\* Largest number of addresses the address list grows to.
MaxAddresses == 3
\* Largest maxRetries a caller passes to retry.
MaxRetries == 2

\* ------------------------------------------------------- cart: input domain
\* An optional value (field?: T) is a sequence: <<>> when absent, <<v>> when set.
ProductIds == {1, 2}

\* The variants a caller adds: product 1 comes plain or as SKU 1, product 2 plain only.
SkusOf(p) == IF p = 1 THEN {<<>>, <<1>>} ELSE {<<>>}

\* Two products, priced as in the worked example: A(price 10), B(price 20).
ProductPrice == <<10, 20>>

ProductStock == <<3, 1>>

ProductOriginalPrice == << <<15>>, <<>> >>

Product(p) ==
    [productId |-> p, price |-> ProductPrice[p],
     originalPrice |-> ProductOriginalPrice[p], stock |-> ProductStock[p]]

\* The product objects a caller passes to addToCart: A and B as listed, and B as a
\* listing that carries originalPrice: 0
Products == {Product(1), Product(2), [Product(2) EXCEPT !.originalPrice = <<0>>]}

Quantities == 1..MaxQty

ItemIds == 0..MaxClock

OptBool == {<<>>, <<TRUE>>, <<FALSE>>}

\* ------------------------------------------------------- cart: array helpers
\* Array.prototype.findIndex / find: the first of the indices whose element passes
\* the test (hits), 1-based; 0 stands for JavaScript's -1 / undefined.
FindIndex(hits) ==
    IF hits = {} THEN 0 ELSE CHOOSE i \in hits : \A j \in hits : i <= j

\* items.value.findIndex(item => item.id === itemId)
IndexOfId(itemId) == FindIndex({i \in 1..Len(items) : items[i].id = itemId})

\* Array.prototype.splice(index, 1)
Splice1(seq, index) ==
    [i \in 1..(Len(seq) - 1) |-> IF i < index THEN seq[i] ELSE seq[i + 1]]

\* Array.prototype.reduce((sum, x) => sum + x, acc) over the numbers the reducer
\* adds, one per item: a left fold
RECURSIVE ReduceSum(_, _)
ReduceSum(numbers, acc) ==
    IF Len(numbers) = 0 THEN acc ELSE ReduceSum(Tail(numbers), acc + Head(numbers))

IsSelected(item) == item.selected

\* item.quantity, per item
ItemQuantities(seq) == [i \in 1..Len(seq) |-> seq[i].quantity]

\* item.price * item.quantity, per item
ItemAmounts(seq) == [i \in 1..Len(seq) |-> seq[i].price * seq[i].quantity]

\* (originalPrice - price) * quantity when originalPrice is truthy, else nothing
ItemSaving(item) ==
    IF item.originalPrice # <<>> /\ item.originalPrice[1] # 0
    THEN (item.originalPrice[1] - item.price) * item.quantity
    ELSE 0

ItemSavings(seq) == [i \in 1..Len(seq) |-> ItemSaving(seq[i])]

\* ------------------------------------------------------- cart: derived views
summaryTotalOverSelected ==
    LET sel == SelectSeq(items, IsSelected)
    IN  [totalCount    |-> ReduceSum(ItemQuantities(items), 0),
         selectedCount |-> ReduceSum(ItemQuantities(sel), 0),
         totalPrice    |-> ReduceSum(ItemAmounts(sel), 0),
         selectedPrice |-> ReduceSum(ItemAmounts(sel), 0),
         totalSavings  |-> ReduceSum(ItemSavings(sel), 0)]

summary ==
    LET selectedItems == SelectSeq(items, IsSelected)
    IN  [totalCount    |-> ReduceSum(ItemQuantities(items), 0),
         selectedCount |-> ReduceSum(ItemQuantities(selectedItems), 0),
         totalPrice    |-> ReduceSum(ItemAmounts(items), 0),
         selectedPrice |-> ReduceSum(ItemAmounts(selectedItems), 0),
         totalSavings  |-> ReduceSum(ItemSavings(selectedItems), 0)]

\* ------------------------------------------------------- cart: history
NoRun == [active |-> FALSE, productId |-> 0, skuId |-> <<>>, sum |-> 0, rejected |-> FALSE]

\* The run of addToCart calls on (productId, skuId) after one more call:
\* it starts when the cart holds no such line and ends with the first rejection
\* or with any other cart action.
RunAfterAdd(productId, skuId, quantity, existed, rejects) ==
    IF ~existed
    THEN [active |-> TRUE, productId |-> productId, skuId |-> skuId,
          sum |-> quantity, rejected |-> FALSE]
    ELSE IF addRun.active /\ ~addRun.rejected
            /\ addRun.productId = productId /\ addRun.skuId = skuId
    THEN [addRun EXCEPT !.sum = @ + quantity, !.rejected = rejects]
    ELSE NoRun

\* ------------------------------------------------------- cart: actions
updateSelectAllState ==
    IF Len(items') = 0
    THEN selectAll' = FALSE
    ELSE selectAll' = (\A i \in 1..Len(items') : items'[i].selected)

addToCart(product, quantity, skuId) ==
    LET existingItemIndex ==
            FindIndex({i \in 1..Len(items) :
                         items[i].productId = product.productId /\ items[i].skuId = skuId})
    IN  /\ IF existingItemIndex > 0
           THEN LET existingItem == items[existingItemIndex]
                    newQuantity == existingItem.quantity + quantity
                IN  IF newQuantity <= existingItem.stock
                    THEN /\ items' = [items EXCEPT ![existingItemIndex].quantity = newQuantity]
                         /\ thrown' = FALSE
                    ELSE /\ items' = items
                         /\ thrown' = TRUE
           ELSE /\ items' = Append(items,
                           [id |-> now,
                            productId |-> product.productId,
                            price |-> product.price,
                            originalPrice |-> product.originalPrice,
                            stock |-> product.stock,
                            quantity |-> quantity,
                            selected |-> TRUE,
                            skuId |-> skuId])
                /\ thrown' = FALSE
        /\ addRun' = RunAfterAdd(product.productId, skuId, quantity,
                                 existingItemIndex > 0, thrown')
        /\ UNCHANGED <<selectAll, now>>
        /\ UNCHANGED exceptCart

\* The items array after removeFromCart(itemId)
RemovedFromCart(itemId) ==
    LET index == IndexOfId(itemId)
    IN  IF index > 0 THEN Splice1(items, index) ELSE items

removeFromCart(itemId) ==
    /\ items' = RemovedFromCart(itemId)
    /\ thrown' = FALSE
    /\ addRun' = NoRun
    /\ UNCHANGED <<selectAll, now>>
    /\ UNCHANGED exceptCart

updateQuantityAssignFirst(itemId, quantity) ==
    LET index == IndexOfId(itemId)
    IN  /\ IF index > 0
           THEN IF quantity <= 0
                THEN /\ items' = RemovedFromCart(itemId)
                     /\ thrown' = FALSE
                ELSE /\ items' = [items EXCEPT ![index].quantity = quantity]
                     /\ thrown' = (quantity > items[index].stock)
           ELSE /\ items' = items
                /\ thrown' = FALSE
        /\ addRun' = NoRun
        /\ UNCHANGED <<selectAll, now>>
        /\ UNCHANGED exceptCart

updateQuantity(itemId, quantity) ==
    LET index == IndexOfId(itemId)
    IN  /\ IF index > 0
           THEN IF quantity <= 0
                THEN /\ items' = RemovedFromCart(itemId)
                     /\ thrown' = FALSE
                ELSE IF quantity <= items[index].stock
                THEN /\ items' = [items EXCEPT ![index].quantity = quantity]
                     /\ thrown' = FALSE
                ELSE /\ items' = items
                     /\ thrown' = TRUE
           ELSE /\ items' = items
                /\ thrown' = FALSE
        /\ addRun' = NoRun
        /\ UNCHANGED <<selectAll, now>>
        /\ UNCHANGED exceptCart

toggleItemSelection(itemId, selected) ==
    LET index == IndexOfId(itemId)
    IN  /\ IF index > 0
           THEN items' = [items EXCEPT ![index].selected =
                             IF selected # <<>> THEN selected[1] ELSE ~@]
           ELSE items' = items
        /\ updateSelectAllState
        /\ thrown' = FALSE
        /\ addRun' = NoRun
        /\ UNCHANGED now
        /\ UNCHANGED exceptCart

toggleSelectAll(selected) ==
    LET newSelectAll == IF selected # <<>> THEN selected[1] ELSE ~selectAll
    IN  /\ selectAll' = newSelectAll
        /\ items' = [i \in 1..Len(items) |-> [items[i] EXCEPT !.selected = newSelectAll]]
        /\ thrown' = FALSE
        /\ addRun' = NoRun
        /\ UNCHANGED now
        /\ UNCHANGED exceptCart

clearCart ==
    /\ items' = <<>>
    /\ selectAll' = FALSE
    /\ thrown' = FALSE
    /\ addRun' = NoRun
    /\ UNCHANGED now
    /\ UNCHANGED exceptCart

NotSelected(item) == ~item.selected

clearSelectedItems ==
    /\ items' = SelectSeq(items, NotSelected)
    /\ updateSelectAllState
    /\ thrown' = FALSE
    /\ addRun' = NoRun
    /\ UNCHANGED now
    /\ UNCHANGED exceptCart

\* checkAllStock(): the lines whose quantity exceeds their stock
OverStock(item) == item.quantity > item.stock

checkAllStock == SelectSeq(items, OverStock)

\* Date.now() advances between (not within) synchronous cart actions
Tick ==
    /\ now < MaxClock
    /\ now' = now + 1
    /\ UNCHANGED <<items, selectAll, thrown, addRun>>
    /\ UNCHANGED exceptCart

\* =================================================================== HTTP wrapper

\* ------------------------------------------------------- HTTP: values
\* A string built by concatenation is the sequence of its pieces.
BASE_URL == <<"https://api.example.com">>

\* A header map is a function from header names to values; {} is the empty one.
EmptyHeader == [h \in {} |-> <<>>]

\* JavaScript values that flow through the chains are records tagged by t.
Undefined == [t |-> "undefined"]

NotCalled == [t |-> "none"]

ErrorOf(message) == [t |-> "Error", message |-> message]

\* What reading a property of undefined throws
TypeError == [t |-> "TypeError", message |-> "Cannot read properties of undefined"]

\* The object Taro.request rejects with
TransportFailure(errMsg) == [t |-> "object", errMsg |-> errMsg]

Response(statusCode, data) == [t |-> "response", statusCode |-> statusCode, data |-> data]

Body == [t |-> "body", code |-> 0]

IsNullish(v) == v.t = "undefined"

\* One entry of the call's history: an interceptor of a chain (index: its place in
\* the list) or the transport (index 0) was invoked, or what it returned settled
Ev(stage, index, event) == [stage |-> stage, index |-> index, event |-> event]

\* v.message / v.errMsg / v.error of a non-nullish v ("" and Undefined: not there)
Message(v) == IF "message" \in DOMAIN v THEN v.message ELSE ""

ErrMsg(v) == IF "errMsg" \in DOMAIN v THEN v.errMsg ELSE ""

Cause(v) == IF "error" \in DOMAIN v THEN v.error ELSE Undefined

\* String.prototype.includes on the platform's failure messages
Includes(errMsg, word) ==
    CASE errMsg = "request:fail timeout" -> word \in {"timeout", "fail"}
      [] errMsg = "request:fail" -> word \in {"fail"}
      [] OTHER -> FALSE

\* ------------------------------------------------------- HTTP: input domain
ErrMsgs == {"request:fail timeout", "request:fail"}

StatusCodes == {199, 200, 299, 300}

\* What device storage holds under key 'token': "none" when the key is missing
\* (getStorage rejects), else the stored string
Tokens == {"none", "", "tok"}

\* A header object a caller passes in config.header
CallerHeader == ("Content-Type" :> "text/plain")

\* Interceptors a caller registers after construction
RequestKinds == {"appendA", "appendB", "loadingOnCopy", "showErrorOff", "reject"}

ResponseKinds == {"envelope", "failing"}

ErrorKinds == {"logOnly", "unwrap", "mark"}

\* Configs a caller passes to request(), over a fixed url: the indicator and toast
\* flags in every combination, and the header and token options in every combination
CallConfigs ==
    [url : {<<"/p">>}, header : {<<>>},
     showLoading : OptBool, showError : OptBool, needToken : {<<>>}]
    \cup
    [url : {<<"/p">>}, header : {<<>>, <<CallerHeader>>},
     showLoading : {<<>>}, showError : {<<>>}, needToken : {<<>>, <<FALSE>>}]

\* Partial configs a caller passes to setDefaultConfig()
DefaultPatches ==
    {[showLoading |-> TRUE, showError |-> FALSE],
     [showLoading |-> FALSE, showError |-> TRUE]}

\* ------------------------------------------------------- HTTP: pure parts
Opt(field, fallback) == IF field # <<>> THEN field[1] ELSE fallback

\* defaultConfig.header: set only by setDefaultConfig; {} stands for undefined, which
\* spreads to nothing
DefaultHeader(defaults) ==
    IF "header" \in DOMAIN defaults THEN defaults.header ELSE EmptyHeader

\* { ...this.defaultConfig, ...config, url: this.baseURL + config.url }
MergeConfig(defaults, config) ==
    [url         |-> BASE_URL \o config.url,
     method      |-> defaults.method,
     header      |-> Opt(config.header, DefaultHeader(defaults)),
     showLoading |-> Opt(config.showLoading, defaults.showLoading),
     showError   |-> Opt(config.showError, defaults.showError),
     needToken   |-> Opt(config.needToken, defaults.needToken)]

DefaultRequestInterceptorForcingJson(config, tok) ==
    LET withToken ==
            IF config.needToken /\ tok # "none" /\ tok # ""
            THEN ("Authorization" :> <<"Bearer ", tok>>) @@ config.header
            ELSE config.header
    IN  [config EXCEPT !.header = ("Content-Type" :> "application/json") @@ withToken]

\* The default request interceptor: bearer token (best effort), then the common header
DefaultRequestInterceptor(config, tok) ==
    LET withToken ==
            IF config.needToken /\ tok # "none" /\ tok # ""
            THEN ("Authorization" :> <<"Bearer ", tok>>) @@ config.header
            ELSE config.header
    IN  [config EXCEPT !.header = withToken @@ ("Content-Type" :> "application/json")]

\* One request interceptor applied to a config: the config it returns, whether that
\* is a new object (fresh) or the one it was given, or the error it throws.
RunRequestInterceptor(kind, config, tok) ==
    CASE kind = "default" ->
            [threw |-> FALSE, fresh |-> FALSE, error |-> Undefined,
             config |-> DefaultRequestInterceptor(config, tok)]
      [] kind = "appendA" ->     \* config.url += 'a'; return config
            [threw |-> FALSE, fresh |-> FALSE, error |-> Undefined,
             config |-> [config EXCEPT !.url = @ \o <<"a">>]]
      [] kind = "appendB" ->     \* return { ...config, url: config.url + 'b' }
            [threw |-> FALSE, fresh |-> TRUE, error |-> Undefined,
             config |-> [config EXCEPT !.url = @ \o <<"b">>]]
      [] kind = "loadingOnCopy" ->   \* return { ...config, showLoading: true }
            [threw |-> FALSE, fresh |-> TRUE, error |-> Undefined,
             config |-> [config EXCEPT !.showLoading = TRUE]]
      [] kind = "showErrorOff" ->    \* config.showError = false; return config
            [threw |-> FALSE, fresh |-> FALSE, error |-> Undefined,
             config |-> [config EXCEPT !.showError = FALSE]]
      [] kind = "reject" ->          \* throw new Error('request blocked')
            [threw |-> TRUE, fresh |-> FALSE, error |-> ErrorOf("request blocked"),
             config |-> config]

StatusOkUpTo300(statusCode) == statusCode >= 200 /\ statusCode <= 300

\* statusCode >= 200 && statusCode < 300
StatusOk(statusCode) == statusCode >= 200 /\ statusCode < 300

\* One response interceptor applied to a value: what it returns or throws
RunResponseInterceptor(kind, v) ==
    CASE kind = "default" ->
            IF StatusOk(v.statusCode)
            THEN [threw |-> FALSE, value |-> v.data]
            ELSE [threw |-> TRUE, value |-> ErrorOf(<<"HTTP Error: ", v.statusCode>>)]
      [] kind = "envelope" ->    \* (data) => ({ payload: data })
            [threw |-> FALSE, value |-> [t |-> "object", payload |-> v]]
      [] kind = "failing" ->     \* () => { throw new Error('bad payload') }
            [threw |-> TRUE, value |-> ErrorOf("bad payload")]

DefaultErrorInterceptorMessageOnly(error) ==
    IF IsNullish(error)
    THEN TypeError
    ELSE [t |-> "object",
          message |-> IF Message(error) # "" THEN Message(error)
                      ELSE "network request failed"]

\* The default error interceptor: rejects with { message, error }
DefaultErrorInterceptor(error) ==
    IF IsNullish(error)
    THEN TypeError
    ELSE LET message ==
                 IF ErrMsg(error) # ""
                 THEN IF Includes(ErrMsg(error), "timeout")
                      THEN "request timed out, check the network connection"
                      ELSE IF Includes(ErrMsg(error), "fail")
                      THEN "network connection failed, check the network settings"
                      ELSE "network request failed"
                 ELSE IF Message(error) # ""
                 THEN Message(error)
                 ELSE "network request failed"
         IN  [t |-> "object", message |-> message, error |-> error]

\* One error interceptor applied to an error: the value it returns or throws
\* (executeErrorInterceptors keeps either as the processed error)
RunErrorInterceptor(kind, error) ==
    CASE kind = "default" -> DefaultErrorInterceptor(error)
      [] kind = "logOnly" ->     \* (e) => { console.log(e) }
            Undefined
      [] kind = "unwrap" ->      \* (e) => e.error
            IF IsNullish(error) THEN TypeError ELSE Cause(error)
      [] kind = "mark" ->        \* (e) => Promise.reject({ ...e, handled: true })
            IF IsNullish(error)
            THEN [t |-> "object", handled |-> TRUE]
            ELSE ("handled" :> TRUE) @@ error

\* for (const interceptor of this.requestInterceptors): the k-th in registration order
RequestInterceptorReversed == requestInterceptors[Len(requestInterceptors) + 1 - k]

RequestInterceptorAt == requestInterceptors[k]

RequestChainDoneAfterFirst == k > 1

\* the for loop of executeRequestInterceptors has run out: return processedConfig
RequestChainDone == k > Len(requestInterceptors)

\* The default request interceptor suspends on Taro.getStorage when the config
\* asks for the token; every other interceptor runs to its end when invoked.
AwaitsToken(kind, config) == kind = "default" /\ config.needToken

\* mergedConfig.showError && processedError.message (processedError not nullish)
ShouldToastIgnoringMessage(config, error) == config.showError

ShouldToast(config, error) == config.showError /\ Message(error) # ""

\* ------------------------------------------------------- HTTP: registration
Extras ==
    (Len(requestInterceptors) - 1) + (Len(responseInterceptors) - 1)
        + (Len(errorInterceptors) - 1)

Idle == pc \in {"idle", "settled"}

\* What the last call left behind, cleared
ForgetCall ==
    /\ pc' = "idle"
    /\ k' = 1
    /\ callConfig' = NotCalled
    /\ mergedConfig' = NotCalled
    /\ processedConfig' = NotCalled
    /\ aliased' = TRUE
    /\ transportConfig' = NotCalled
    /\ transportResult' = NotCalled
    /\ caught' = Undefined
    /\ value' = Undefined
    /\ outcome' = "none"
    /\ shows' = 0
    /\ hides' = 0
    /\ toast' = <<>>
    /\ log' = <<>>

setDefaultConfig(config) ==
    /\ Idle
    /\ defaultConfig' = config @@ defaultConfig
    /\ ForgetCall
    /\ UNCHANGED <<requestInterceptors, responseInterceptors, errorInterceptors,
                   token, loadingVisible>>
    /\ UNCHANGED exceptHttp

addRequestInterceptor(interceptor) ==
    /\ Idle
    /\ Extras < MaxExtra
    /\ requestInterceptors' = Append(requestInterceptors, interceptor)
    /\ ForgetCall
    /\ UNCHANGED <<defaultConfig, responseInterceptors, errorInterceptors,
                   token, loadingVisible>>
    /\ UNCHANGED exceptHttp

addResponseInterceptor(interceptor) ==
    /\ Idle
    /\ Extras < MaxExtra
    /\ responseInterceptors' = Append(responseInterceptors, interceptor)
    /\ ForgetCall
    /\ UNCHANGED <<defaultConfig, requestInterceptors, errorInterceptors,
                   token, loadingVisible>>
    /\ UNCHANGED exceptHttp

addErrorInterceptor(interceptor) ==
    /\ Idle
    /\ Extras < MaxExtra
    /\ errorInterceptors' = Append(errorInterceptors, interceptor)
    /\ ForgetCall
    /\ UNCHANGED <<defaultConfig, requestInterceptors, responseInterceptors,
                   token, loadingVisible>>
    /\ UNCHANGED exceptHttp

\* Taro.setStorage / removeStorage of key 'token', by the rest of the application
StoreToken(tok) ==
    /\ Idle
    /\ token # tok
    /\ token' = tok
    /\ ForgetCall
    /\ UNCHANGED <<defaultConfig, requestInterceptors, responseInterceptors,
                   errorInterceptors, loadingVisible>>
    /\ UNCHANGED exceptHttp

\* ------------------------------------------------------- HTTP: request()
HttpSetup == <<defaultConfig, requestInterceptors, responseInterceptors,
               errorInterceptors, token>>

\* Entering the catch block with an error: hide the indicator if mergedConfig (as the
\* object stands now) asks for it, then start the error interceptors.
Catch(error, merged) ==
    /\ IF merged.showLoading
       THEN hides' = hides + 1 /\ loadingVisible' = FALSE
       ELSE UNCHANGED <<hides, loadingVisible>>
    /\ caught' = error
    /\ value' = error
    /\ k' = 1
    /\ pc' = "error"

\* request(config) up to its first await: the merge
request(config) ==
    /\ Idle
    /\ callConfig' = config
    /\ mergedConfig' = MergeConfig(defaultConfig, config)
    /\ processedConfig' = MergeConfig(defaultConfig, config)
    /\ aliased' = TRUE
    /\ k' = 1
    /\ pc' = "request"
    /\ transportConfig' = NotCalled
    /\ transportResult' = NotCalled
    /\ caught' = Undefined
    /\ value' = Undefined
    /\ outcome' = "none"
    /\ shows' = 0
    /\ hides' = 0
    /\ toast' = <<>>
    /\ log' = <<>>
    /\ UNCHANGED <<HttpSetup, loadingVisible>>
    /\ UNCHANGED exceptHttp

\* await interceptor(processedConfig) settles: the config it returned becomes
\* processedConfig, or what it threw goes to the catch block
RequestInterceptorSettles(events) ==
    LET r == RunRequestInterceptor(RequestInterceptorAt, processedConfig, token)
    IN  IF r.threw
        THEN /\ Catch(r.error, mergedConfig)
             /\ log' = log \o events \o <<Ev("request", k, "rejected")>>
             /\ UNCHANGED <<mergedConfig, processedConfig, aliased>>
        ELSE /\ processedConfig' = r.config
             /\ mergedConfig' = IF aliased /\ ~r.fresh THEN r.config ELSE mergedConfig
             /\ aliased' = (aliased /\ ~r.fresh)
             /\ k' = k + 1
             /\ pc' = "request"
             /\ log' = log \o events \o <<Ev("request", k, "fulfilled")>>
             /\ UNCHANGED <<caught, value, hides, loadingVisible>>

\* executeRequestInterceptors: one turn of the loop, up to the interceptor's result
\* or to the interceptor's own await
RequestInterceptorStep ==
    /\ pc = "request"
    /\ ~RequestChainDone
    /\ IF AwaitsToken(RequestInterceptorAt, processedConfig)
       THEN /\ pc' = "token"
            /\ log' = Append(log, Ev("request", k, "invoked"))
            /\ UNCHANGED <<k, mergedConfig, processedConfig, aliased,
                           caught, value, hides, loadingVisible>>
       ELSE RequestInterceptorSettles(<<Ev("request", k, "invoked")>>)
    /\ UNCHANGED <<HttpSetup, callConfig, transportConfig, transportResult,
                   outcome, shows, toast>>
    /\ UNCHANGED exceptHttp

\* Taro.getStorage({ key: 'token' }) settles, resolved or rejected (the rejection is
\* caught inside the interceptor), and the default interceptor finishes
TokenLookupSettles ==
    /\ pc = "token"
    /\ RequestInterceptorSettles(<<>>)
    /\ UNCHANGED <<HttpSetup, callConfig, transportConfig, transportResult,
                   outcome, shows, toast>>
    /\ UNCHANGED exceptHttp

\* The chain is through: show the indicator if asked, call Taro.request
Send ==
    /\ pc = "request"
    /\ RequestChainDone
    /\ IF processedConfig.showLoading
       THEN shows' = shows + 1 /\ loadingVisible' = TRUE
       ELSE UNCHANGED <<shows, loadingVisible>>
    /\ transportConfig' = [url |-> processedConfig.url,
                           method |-> processedConfig.method,
                           header |-> processedConfig.header]
    /\ pc' = "transport"
    /\ log' = Append(log, Ev("transport", 0, "invoked"))
    /\ UNCHANGED <<HttpSetup, k, callConfig, mergedConfig, processedConfig, aliased,
                   transportResult, caught, value, outcome, hides, toast>>
    /\ UNCHANGED exceptHttp

\* Taro.request resolves with a response
TransportResponds(statusCode) ==
    /\ pc = "transport"
    /\ transportResult' = Response(statusCode, Body)
    /\ IF processedConfig.showLoading
       THEN hides' = hides + 1 /\ loadingVisible' = FALSE
       ELSE UNCHANGED <<hides, loadingVisible>>
    /\ value' = Response(statusCode, Body)
    /\ k' = 1
    /\ pc' = "response"
    /\ log' = Append(log, Ev("transport", 0, "fulfilled"))
    /\ UNCHANGED <<HttpSetup, callConfig, mergedConfig, processedConfig, aliased,
                   transportConfig, caught, outcome, shows, toast>>
    /\ UNCHANGED exceptHttp

\* Taro.request rejects (timeout, no connection)
TransportFails(errMsg) ==
    /\ pc = "transport"
    /\ transportResult' = TransportFailure(errMsg)
    /\ Catch(TransportFailure(errMsg), mergedConfig)
    /\ log' = Append(log, Ev("transport", 0, "rejected"))
    /\ UNCHANGED <<HttpSetup, callConfig, mergedConfig, processedConfig, aliased,
                   transportConfig, outcome, shows, toast>>
    /\ UNCHANGED exceptHttp

\* executeResponseInterceptors: one turn of the loop
ResponseInterceptorStep ==
    /\ pc = "response"
    /\ k <= Len(responseInterceptors)
    /\ LET r == RunResponseInterceptor(responseInterceptors[k], value)
       IN  IF r.threw
           THEN /\ Catch(r.value, mergedConfig)
                /\ log' = log \o <<Ev("response", k, "invoked"),
                                   Ev("response", k, "rejected")>>
           ELSE /\ value' = r.value
                /\ k' = k + 1
                /\ log' = log \o <<Ev("response", k, "invoked"),
                                   Ev("response", k, "fulfilled")>>
                /\ UNCHANGED <<pc, caught, hides, loadingVisible>>
    /\ UNCHANGED <<HttpSetup, callConfig, mergedConfig, processedConfig, aliased,
                   transportConfig, transportResult, outcome, shows, toast>>
    /\ UNCHANGED exceptHttp

\* return processedResponse
Resolve ==
    /\ pc = "response"
    /\ k > Len(responseInterceptors)
    /\ outcome' = "resolved"
    /\ pc' = "settled"
    /\ UNCHANGED <<HttpSetup, k, callConfig, mergedConfig, processedConfig, aliased,
                   transportConfig, transportResult, caught, value,
                   loadingVisible, shows, hides, toast, log>>
    /\ UNCHANGED exceptHttp

\* executeErrorInterceptors: one turn of the loop (a throw is caught and kept)
ErrorInterceptorStep ==
    /\ pc = "error"
    /\ k <= Len(errorInterceptors)
    /\ value' = RunErrorInterceptor(errorInterceptors[k], value)
    /\ k' = k + 1
    /\ log' = log \o <<Ev("error", k, "invoked"), Ev("error", k, "settled")>>
    /\ UNCHANGED <<HttpSetup, pc, callConfig, mergedConfig, processedConfig, aliased,
                   transportConfig, transportResult, caught, outcome,
                   loadingVisible, shows, hides, toast>>
    /\ UNCHANGED exceptHttp

\* The end of the catch block: the toast, then throw processedError. Reading
\* processedError.message of undefined throws a TypeError in its place.
Reject ==
    /\ pc = "error"
    /\ k > Len(errorInterceptors)
    /\ IF mergedConfig.showError /\ IsNullish(value)
       THEN /\ value' = TypeError
            /\ UNCHANGED toast
       ELSE /\ toast' = IF ShouldToast(mergedConfig, value)
                        THEN Append(toast, Message(value))
                        ELSE toast
            /\ UNCHANGED value
    /\ outcome' = "rejected"
    /\ pc' = "settled"
    /\ UNCHANGED <<HttpSetup, k, callConfig, mergedConfig, processedConfig, aliased,
                   transportConfig, transportResult, caught,
                   loadingVisible, shows, hides, log>>
    /\ UNCHANGED exceptHttp

\* ------------------------------------------------------- HTTP: upload()
\* Configs a caller passes to upload()
UploadConfigs ==
    [header : {<<>>, <<CallerHeader>>}, showLoading : {<<>>, <<TRUE>>},
     showError : {<<>>}, needToken : {<<>>, <<FALSE>>}]

\* A header object a caller passes to setDefaultConfig({ header })
ClientHeader == ("X-Client" :> "taro")

\* What Taro.uploadFile resolves with in response.data: JSON text or other text
UploadBodies == {"{}", "done"}

\* JSON.parse(data), keeping data as it is when it is not JSON
ParseOrKeep(data) ==
    IF data = "{}" THEN [t |-> "object"] ELSE [t |-> "string", text |-> data]

UploadIdle == uploadPc \in {"idle", "settled"}

\* setDefaultConfig({ header }), while no upload is in flight
setDefaultHeader(header) ==
    /\ UploadIdle
    /\ setDefaultConfig([header |-> header])
    /\ UNCHANGED uploadVars

\* Taro.uploadFile({ url, filePath, name, formData, header })
CallUploadFile(header) ==
    /\ uploadSent' = <<[header |-> header]>>
    /\ uploadPc' = "transport"

\* One call at a time is made on the client: upload() starts when the last request()
\* has settled, and what that call left behind is cleared.
\* upload(url, filePath, name, formData, config) up to its first await: the merge,
\* the indicator, header = mergedConfig.header || {}, then the token lookup or, with
\* needToken false, Taro.uploadFile
upload(config) ==
    /\ UploadIdle
    /\ Idle
    /\ ForgetCall
    /\ uploadConfig' = config
    /\ LET merged == [showLoading |-> Opt(config.showLoading, defaultConfig.showLoading),
                      showError |-> Opt(config.showError, defaultConfig.showError),
                      needToken |-> Opt(config.needToken, defaultConfig.needToken)]
           header == Opt(config.header, DefaultHeader(defaultConfig))
       IN /\ uploadMerged' = merged
          /\ loadingVisible' = (loadingVisible \/ merged.showLoading)
          /\ uploadHeader' = header
          /\ uploadAlias' = IF config.header # <<>> THEN "caller"
                            ELSE IF "header" \in DOMAIN defaultConfig THEN "default"
                            ELSE "new"
          /\ IF merged.needToken
             THEN uploadPc' = "token" /\ uploadSent' = <<>>
             ELSE CallUploadFile(header)
    /\ uploadResult' = Undefined
    /\ uploadToast' = ""
    /\ UNCHANGED <<defaultConfig, requestInterceptors, responseInterceptors,
                   errorInterceptors, token>>
    /\ UNCHANGED exceptUpload

\* Taro.getStorage({ key: 'token' }) settles: header['Authorization'] is assigned on
\* the object header refers to when the token is truthy (a failed lookup is caught);
\* then Taro.uploadFile is called
UploadTokenSettles ==
    /\ uploadPc = "token"
    /\ LET header == IF token \notin {"none", ""}
                     THEN ("Authorization" :> <<"Bearer ", token>>) @@ uploadHeader
                     ELSE uploadHeader
       IN /\ uploadHeader' = header
          /\ uploadConfig' = IF uploadAlias = "caller"
                             THEN [uploadConfig EXCEPT !.header = <<header>>]
                             ELSE uploadConfig
          /\ defaultConfig' = IF uploadAlias = "default"
                              THEN [defaultConfig EXCEPT !.header = header]
                              ELSE defaultConfig
          /\ CallUploadFile(header)
    /\ UNCHANGED <<uploadMerged, uploadAlias, uploadResult, uploadToast>>
    /\ UNCHANGED <<requestInterceptors, responseInterceptors,
                   errorInterceptors, token, pc, k, callConfig, mergedConfig,
                   processedConfig, aliased, transportConfig, transportResult, caught,
                   value, outcome, loadingVisible, shows, hides, toast, log>>
    /\ UNCHANGED exceptUpload

\* Taro.uploadFile resolves: the indicator is hidden, the data parsed and returned
UploadResponds(data) ==
    /\ uploadPc = "transport"
    /\ loadingVisible' = (loadingVisible /\ ~uploadMerged.showLoading)
    /\ uploadResult' = ParseOrKeep(data)
    /\ uploadPc' = "settled"
    /\ UNCHANGED <<uploadConfig, uploadMerged, uploadHeader, uploadAlias, uploadSent,
                   uploadToast>>
    /\ UNCHANGED <<defaultConfig, requestInterceptors, responseInterceptors,
                   errorInterceptors, token, pc, k, callConfig, mergedConfig,
                   processedConfig, aliased, transportConfig, transportResult, caught,
                   value, outcome, shows, hides, toast, log>>
    /\ UNCHANGED exceptUpload

\* Taro.uploadFile rejects: the indicator is hidden, the toast '上传失败' is shown when
\* showError is set, and the error is thrown
UploadFails(errMsg) ==
    /\ uploadPc = "transport"
    /\ loadingVisible' = (loadingVisible /\ ~uploadMerged.showLoading)
    /\ uploadToast' = IF uploadMerged.showError THEN "upload failed" ELSE ""
    /\ uploadResult' = [t |-> "object", errMsg |-> errMsg]
    /\ uploadPc' = "settled"
    /\ UNCHANGED <<uploadConfig, uploadMerged, uploadHeader, uploadAlias, uploadSent>>
    /\ UNCHANGED <<defaultConfig, requestInterceptors, responseInterceptors,
                   errorInterceptors, token, pc, k, callConfig, mergedConfig,
                   processedConfig, aliased, transportConfig, transportResult, caught,
                   value, outcome, shows, hides, toast, log>>
    /\ UNCHANGED exceptUpload

UploadInit ==
    /\ uploadPc = "idle"
    /\ uploadConfig = NotCalled
    /\ uploadMerged = NotCalled
    /\ uploadHeader = EmptyHeader
    /\ uploadAlias = "new"
    /\ uploadSent = <<>>
    /\ uploadResult = Undefined
    /\ uploadToast = ""

\* =================================================================== product store

\* ------------------------------------------------------- product: strings
\* A string is the sequence of its characters.
Lower(c) ==
    CASE c = "P" -> "p"
      [] c = "H" -> "h"
      [] c = "C" -> "c"
      [] OTHER -> c

\* String.prototype.toLowerCase
toLowerCase(str) == [i \in 1..Len(str) |-> Lower(str[i])]

\* String.prototype.includes: sub occurs in str as a run of consecutive characters
StringIncludes(str, sub) ==
    \E i \in 0..(Len(str) - Len(sub)) : SubSeq(str, i + 1, i + Len(sub)) = sub

\* ------------------------------------------------------- product: input domain
\* The products the backend serves; the mock generator fills them at random
Catalogue ==
    << [id |-> 1, name |-> <<"P", "h">>, description |-> <<>>,
        price |-> 10, categoryId |-> 1, sales |-> 5, rating |-> 40,
        tags |-> << <<"hot">> >>,
        isRecommend |-> <<TRUE>>, isHot |-> <<>>, isNew |-> <<>>],
       [id |-> 2, name |-> <<"C", "a">>, description |-> << <<"a", "P", "H">> >>,
        price |-> 10, categoryId |-> 2, sales |-> 7, rating |-> 45,
        tags |-> <<>>,
        isRecommend |-> <<FALSE>>, isHot |-> <<TRUE>>, isNew |-> <<FALSE>>],
       [id |-> 3, name |-> <<"C", "b">>, description |-> << <<"x">> >>,
        price |-> 0, categoryId |-> 0, sales |-> 7, rating |-> 40,
        tags |-> << <<"new", "hot">> >>,
        isRecommend |-> <<>>, isHot |-> <<FALSE>>, isNew |-> <<TRUE>>],
       [id |-> 4, name |-> <<"D", "p">>, description |-> <<>>,
        price |-> 20, categoryId |-> 1, sales |-> 1, rating |-> 50,
        tags |-> << <<"new">> >>,
        isRecommend |-> <<>>, isHot |-> <<>>, isNew |-> <<>>],
       [id |-> 5, name |-> <<"E", "h">>, description |-> << <<"p", "h">> >>,
        price |-> 20, categoryId |-> 2, sales |-> 1, rating |-> 45,
        tags |-> << <<>> >>,
        isRecommend |-> <<FALSE>>, isHot |-> <<FALSE>>, isNew |-> <<FALSE>> ] >>

\* The lists a load may bring: up to MaxProducts distinct products, in any order
mockProducts ==
    LET Orders == UNION {[1..n -> DOMAIN Catalogue] : n \in 0..MaxProducts}
        Distinct == {ix \in Orders : \A i, j \in DOMAIN ix : i # j => ix[i] # ix[j]}
    IN  {[i \in DOMAIN ix |-> Catalogue[ix[i]]] : ix \in Distinct}

\* searchFilters.value = {}
NoFilters ==
    [keyword |-> <<>>, categoryId |-> <<>>, minPrice |-> <<>>, maxPrice |-> <<>>,
     sortBy |-> <<>>, tags |-> <<>>]

\* The criteria a caller passes to setFilters, one criterion at a time
FilterPatches ==
    {[NoFilters EXCEPT !.categoryId = <<c>>] : c \in {0, 1}}
    \cup {[NoFilters EXCEPT !.minPrice = <<0>>, !.maxPrice = <<10>>]}
    \cup {[NoFilters EXCEPT !.tags = << <<"hot">> >>]}
    \cup {[NoFilters EXCEPT !.sortBy = <<o>>] : o \in {"default", "price_asc", "price_desc"}}

\* The keywords a caller passes to searchProducts
SearchKeywords == {<<"P", "H">>}

\* ------------------------------------------------------- product: filteredProducts
\* name or description contains the keyword, letter case aside
MatchesKeyword(product, keyword) ==
    LET lowered == toLowerCase(keyword)
    IN  \/ StringIncludes(toLowerCase(product.name), lowered)
        \/ /\ product.description # <<>>
           /\ StringIncludes(toLowerCase(product.description[1]), lowered)

\* product.tags?.some(tag => filters.tags.includes(tag))
SharesTag(product, tags) ==
    /\ product.tags # <<>>
    /\ \E i \in DOMAIN product.tags[1] : \E j \in DOMAIN tags : product.tags[1][i] = tags[j]

\* The filter steps of filteredProducts, each applied when its criterion passes the
\* test the code makes (truthiness for keyword and categoryId, !== undefined for the
\* price bounds, a non-empty array for tags)
Filtered(products, filters) ==
    LET ByKeyword(p) == MatchesKeyword(p, filters.keyword[1])
        ByCategory(p) == p.categoryId = filters.categoryId[1]
        ByMinPrice(p) == p.price >= filters.minPrice[1]
        ByMaxPrice(p) == p.price <= filters.maxPrice[1]
        ByTags(p) == SharesTag(p, filters.tags[1])
        s1 == IF filters.keyword # <<>> /\ filters.keyword[1] # <<>>
              THEN SelectSeq(products, ByKeyword) ELSE products
        s2 == IF filters.categoryId # <<>> /\ filters.categoryId[1] # 0
              THEN SelectSeq(s1, ByCategory) ELSE s1
        s3 == IF filters.minPrice # <<>> THEN SelectSeq(s2, ByMinPrice) ELSE s2
        s4 == IF filters.maxPrice # <<>> THEN SelectSeq(s3, ByMaxPrice) ELSE s3
    IN  IF filters.tags # <<>> /\ Len(filters.tags[1]) > 0
        THEN SelectSeq(s4, ByTags) ELSE s4

\* An optional boolean read as a condition
Truthy(flag) == flag # <<>> /\ flag[1]

CompareDescendingAsAscending(sortBy, a, b) ==
    CASE sortBy = <<"price_asc">> -> a.price - b.price
      [] sortBy = <<"price_desc">> -> a.price - b.price
      [] sortBy = <<"sales">> -> b.sales - a.sales
      [] sortBy = <<"rating">> -> b.rating - a.rating
      [] OTHER ->
            IF Truthy(a.isRecommend) /\ ~Truthy(b.isRecommend) THEN -1
            ELSE IF ~Truthy(a.isRecommend) /\ Truthy(b.isRecommend) THEN 1
            ELSE IF Truthy(a.isHot) /\ ~Truthy(b.isHot) THEN -1
            ELSE IF ~Truthy(a.isHot) /\ Truthy(b.isHot) THEN 1
            ELSE IF Truthy(a.isNew) /\ ~Truthy(b.isNew) THEN -1
            ELSE IF ~Truthy(a.isNew) /\ Truthy(b.isNew) THEN 1
            ELSE 0

\* The comparator the switch on filters.sortBy picks
Compare(sortBy, a, b) ==
    CASE sortBy = <<"price_asc">> -> a.price - b.price
      [] sortBy = <<"price_desc">> -> b.price - a.price
      [] sortBy = <<"sales">> -> b.sales - a.sales
      [] sortBy = <<"rating">> -> b.rating - a.rating
      [] OTHER ->
            IF Truthy(a.isRecommend) /\ ~Truthy(b.isRecommend) THEN -1
            ELSE IF ~Truthy(a.isRecommend) /\ Truthy(b.isRecommend) THEN 1
            ELSE IF Truthy(a.isHot) /\ ~Truthy(b.isHot) THEN -1
            ELSE IF ~Truthy(a.isHot) /\ Truthy(b.isHot) THEN 1
            ELSE IF Truthy(a.isNew) /\ ~Truthy(b.isNew) THEN -1
            ELSE IF ~Truthy(a.isNew) /\ Truthy(b.isNew) THEN 1
            ELSE 0

RECURSIVE InsertSortedBeforeEquals(_, _, _)
InsertSortedBeforeEquals(sorted, x, sortBy) ==
    IF sorted = <<>> THEN <<x>>
    ELSE LET last == sorted[Len(sorted)]
         IN  IF Compare(sortBy, last, x) >= 0
             THEN Append(InsertSortedBeforeEquals(SubSeq(sorted, 1, Len(sorted) - 1),
                                                  x, sortBy), last)
             ELSE Append(sorted, x)

\* Array.prototype.sort is stable: x goes after every element that does not compare
\* greater than it
RECURSIVE InsertSorted(_, _, _)
InsertSorted(sorted, x, sortBy) ==
    IF sorted = <<>> THEN <<x>>
    ELSE LET last == sorted[Len(sorted)]
         IN  IF Compare(sortBy, last, x) > 0
             THEN Append(InsertSorted(SubSeq(sorted, 1, Len(sorted) - 1), x, sortBy), last)
             ELSE Append(sorted, x)

\* products.sort(comparator)
RECURSIVE Sort(_, _)
Sort(products, sortBy) ==
    IF products = <<>> THEN <<>>
    ELSE InsertSorted(Sort(SubSeq(products, 1, Len(products) - 1), sortBy),
                      products[Len(products)], sortBy)

\* filteredProducts for a product list and filter criteria
FilteredProducts(products, filters) == Sort(Filtered(products, filters), filters.sortBy)

filteredProducts == FilteredProducts(productList, searchFilters)

\* ------------------------------------------------------- product: actions
\* { ...searchFilters.value, ...filters }
MergeFilters(base, filters) ==
    [f \in DOMAIN base |-> IF filters[f] # <<>> THEN filters[f] ELSE base[f]]

\* The body of loadProducts(params, isLoadMore), the list mock being what the
\* generator produced and before the pagination at the time of the call
LoadProducts(before, isLoadMore, mock) ==
    LET start == IF isLoadMore THEN before ELSE [before EXCEPT !.page = 1]
        counted == [start EXCEPT !.total = 100,
                                 !.hasMore = (start.page * start.pageSize < 100)]
    IN  /\ productList' = IF isLoadMore THEN productList \o mock ELSE mock
        /\ pagination' = IF isLoadMore THEN [counted EXCEPT !.page = @ + 1] ELSE counted

loadProducts(mock) ==
    /\ LoadProducts(pagination, FALSE, mock)
    /\ UNCHANGED <<searchKeyword, searchFilters>>
    /\ UNCHANGED exceptProduct

searchProducts(keyword, mock) ==
    /\ searchKeyword' = keyword
    /\ searchFilters' = [searchFilters EXCEPT !.keyword = <<keyword>>]
    /\ LoadProducts(pagination, FALSE, mock)
    /\ UNCHANGED exceptProduct

setFilters(filters, mock) ==
    /\ searchFilters' = MergeFilters(searchFilters, filters)
    /\ LoadProducts(pagination, FALSE, mock)
    /\ UNCHANGED searchKeyword
    /\ UNCHANGED exceptProduct

clearFilters(mock) ==
    /\ searchFilters' = NoFilters
    /\ searchKeyword' = <<>>
    /\ LoadProducts(pagination, FALSE, mock)
    /\ UNCHANGED exceptProduct

\* ------------------------------------------------------- products: pagination
\* Array.from({ length: 10 }, ...): the products one load generates
MockPageLength == 10

\* The mock products generated while pagination.page = page: their ids are
\* (page - 1) * 10 + index + 1; the other fields are random in the code and stand
\* here with one value each
MockPage(page) ==
    [index \in 1..MockPageLength |->
        [id |-> (page - 1) * 10 + index, name |-> <<"P", "h">>, description |-> <<>>,
         price |-> 10, categoryId |-> 1, sales |-> 5, rating |-> 40,
         tags |-> << <<"hot">> >>,
         isRecommend |-> <<TRUE>>, isHot |-> <<>>, isNew |-> <<>>]]

\* loading.value as an action finds it: loadProducts sets it and resets it in its
\* finally block within one synchronous run
loading == FALSE

\* loadMoreProducts(): nothing without hasMore or while loading; otherwise page++,
\* then loadProducts(searchFilters, true), which generates the products of the page
\* just set, appends them, and increments page again
loadMoreProducts ==
    /\ IF ~pagination.hasMore \/ loading
       THEN UNCHANGED <<productList, pagination>>
       ELSE LET advanced == [pagination EXCEPT !.page = @ + 1]
            IN  LoadProducts(advanced, TRUE, MockPage(advanced.page))
    /\ UNCHANGED <<searchKeyword, searchFilters>>
    /\ UNCHANGED exceptProduct

\* =================================================================== search bar

\* ------------------------------------------------------- search: input domain
Letters == {"a", "b", "c", "d", "e", "f", "g", "h", "i", "j", "k"}

\* What the search box holds when a search is submitted: a keyword (the latest,
\* a middle one and the oldest of the stored history, and two new ones), a keyword
\* between blanks, a blank, nothing
SearchTexts ==
    {<<c>> : c \in {"a", "e", "i", "j", "k"}} \cup {<<" ", "e", " ">>, <<" ">>, <<>>}

\* The history earlier sessions left in device storage, most recent first
EarlierSearches ==
    << <<"a">>, <<"b">>, <<"c">>, <<"d">>, <<"e">>, <<"f">>, <<"g">>, <<"h">>, <<"i">> >>

\* ------------------------------------------------------- search: pure parts
\* String.prototype.trim
RECURSIVE TrimStart(_)
TrimStart(str) ==
    IF str # <<>> /\ Head(str) = " " THEN TrimStart(Tail(str)) ELSE str

RECURSIVE TrimEnd(_)
TrimEnd(str) ==
    IF str # <<>> /\ str[Len(str)] = " "
    THEN TrimEnd(SubSeq(str, 1, Len(str) - 1))
    ELSE str

trim(str) == TrimEnd(TrimStart(str))

\* if (history.length > 10) history = history.slice(0, 10)
HistoryLimit == 10

WithKeywordFirstKeepingDuplicates(history, keyword) ==
    LET unshifted == <<keyword>> \o history
    IN  IF Len(unshifted) > HistoryLimit
        THEN SubSeq(unshifted, 1, HistoryLimit)
        ELSE unshifted

\* The list addToSearchHistory saves, from the list it read: the keyword removed,
\* put in front, and the list cut to the limit
WithKeywordFirst(history, keyword) ==
    LET Other(item) == item # keyword
        unshifted == <<keyword>> \o SelectSeq(history, Other)
    IN  IF Len(unshifted) > HistoryLimit
        THEN SubSeq(unshifted, 1, HistoryLimit)
        ELSE unshifted

\* ------------------------------------------------------- search: actions
\* handleSearch(): a blank search does nothing; otherwise the search is emitted and
\* addToSearchHistory(keyword) started (not awaited), up to its getStorage
handleSearch(text) ==
    LET keyword == trim(text)
    IN  /\ searchCount < Len(EarlierSearches) + MaxSearches
        /\ Len(calls) < MaxInFlight
        /\ IF keyword # <<>>
           THEN /\ calls' = Append([c \in DOMAIN calls |->
                                        [calls[c] EXCEPT !.overlaps = @ \cup {keyword}]],
                                    [keyword |-> keyword, pc |-> "get", history |-> <<>>,
                                     overlaps |-> {calls[c].keyword : c \in DOMAIN calls},
                                     cleared |-> FALSE])
                /\ searchCount' = searchCount + 1
                /\ lastSearched' = [lastSearched EXCEPT ![keyword] = searchCount + 1]
                /\ overlapped' = (overlapped \/ calls # <<>>)
           ELSE UNCHANGED <<calls, searchCount, lastSearched, overlapped>>
        /\ UNCHANGED searchHistory
        /\ UNCHANGED exceptSearch

\* await Taro.getStorage({ key: 'searchHistory' }).catch(() => ({ data: [] })) settles
GetStorageSettles(c) ==
    /\ c \in DOMAIN calls
    /\ calls[c].pc = "get"
    /\ calls' = [calls EXCEPT ![c].pc = "set",
                              ![c].history = IF searchHistory # <<>> THEN searchHistory[1]
                                             ELSE <<>>]
    /\ UNCHANGED <<searchHistory, searchCount, lastSearched, overlapped>>
    /\ UNCHANGED exceptSearch

\* The rest of addToSearchHistory: the new list is computed and Taro.setStorage
\* writes it
SetStorageSettles(c) ==
    /\ c \in DOMAIN calls
    /\ calls[c].pc = "set"
    /\ searchHistory' = <<WithKeywordFirst(calls[c].history, calls[c].keyword)>>
    /\ calls' = Splice1(calls, c)
    /\ UNCHANGED <<searchCount, lastSearched, overlapped>>
    /\ UNCHANGED exceptSearch

\* clearSearchHistory(): Taro.removeStorage({ key: 'searchHistory' })
clearSearchHistory ==
    /\ searchHistory # <<>>
    /\ searchHistory' = <<>>
    /\ lastSearched' = IF calls = <<>> THEN [w \in DOMAIN lastSearched |-> 0]
                       ELSE lastSearched
    /\ overlapped' = (calls # <<>>)
    /\ calls' = [c \in DOMAIN calls |-> [calls[c] EXCEPT !.cleared = TRUE]]
    /\ UNCHANGED searchCount
    /\ UNCHANGED exceptSearch

\* ------------------------------------------------------------ specifications
\* new HttpRequest() followed by http.setBaseURL(BASE_URL)
HttpInit ==
    /\ defaultConfig = [method |-> "GET", timeout |-> 10000, showLoading |-> FALSE,
                        showError |-> TRUE, needToken |-> TRUE]
    /\ requestInterceptors = <<"default">>
    /\ responseInterceptors = <<"default">>
    /\ errorInterceptors = <<"default">>
    /\ token = "none"
    /\ pc = "idle"
    /\ k = 1
    /\ callConfig = NotCalled
    /\ mergedConfig = NotCalled
    /\ processedConfig = NotCalled
    /\ aliased = TRUE
    /\ transportConfig = NotCalled
    /\ transportResult = NotCalled
    /\ caught = Undefined
    /\ value = Undefined
    /\ outcome = "none"
    /\ loadingVisible = FALSE
    /\ shows = 0
    /\ hides = 0
    /\ toast = <<>>
    /\ log = <<>>

CartInit ==
    /\ items = <<>>
    /\ selectAll = FALSE
    /\ now = 0
    /\ thrown = FALSE
    /\ addRun = NoRun

ProductInit ==
    /\ productList = <<>>
    /\ searchKeyword = <<>>
    /\ searchFilters = NoFilters
    /\ pagination = [page |-> 1, pageSize |-> 20, total |-> 0, hasMore |-> TRUE]

\* The search bar on a device whose storage holds the history of earlier sessions
SearchInit ==
    /\ searchHistory = <<EarlierSearches>>
    /\ calls = <<>>
    /\ searchCount = Len(EarlierSearches)
    /\ lastSearched =
          [w \in {<<c>> : c \in Letters} |->
              IF \E i \in DOMAIN EarlierSearches : EarlierSearches[i] = w
              THEN Len(EarlierSearches) + 1
                       - CHOOSE i \in DOMAIN EarlierSearches : EarlierSearches[i] = w
              ELSE 0]
    /\ overlapped = FALSE

\* =================================================================== user store
\* An Address: id, name, isDefault and the optional tag; phone, province, city,
\* district and detail are carried along exactly as name is.
\* Names and tags are written in Latin letters: "ZhangSan" for the mock's name,
\* "home" for its tag.
AddressNames == {"ZhangSan", "LiSi"}

\* The addresses a caller passes to addAddress (Omit<Address, 'id'>)
NewAddresses == [name : AddressNames, isDefault : BOOLEAN, tag : {<<>>}]

\* The updates a caller passes to updateAddress (Partial<Address>)
AddressUpdates == [name : {<<>>, <<"LiSi">>}, isDefault : OptBool, tag : {<<>>, <<"home">>}]

\* The ids addresses carry: the mock's 1 and the clock readings
AddressIds == {1} \cup (0..MaxClock)

\* The toast titles: '地址添加成功', '地址更新成功', '地址删除成功'
ToastAdded == "address added"

ToastUpdated == "address updated"

ToastDeleted == "address deleted"

\* addressList.value.findIndex(addr => addr.id === addressId): 0 when none (-1 in the code)
AddressIndex(addressId) ==
    IF \E i \in DOMAIN addressList : addressList[i].id = addressId
    THEN CHOOSE i \in DOMAIN addressList :
            /\ addressList[i].id = addressId
            /\ \A j \in 1..(i - 1) : addressList[j].id # addressId
    ELSE 0

\* addressList.value.forEach(addr => { addr.isDefault = false })
WithoutDefault(list) == [i \in DOMAIN list |-> [list[i] EXCEPT !.isDefault = FALSE]]

\* { ...address, ...updates }: the fields updates carries replace the address's
Updated(address, updates) ==
    [id |-> address.id,
     name |-> Opt(updates.name, address.name),
     isDefault |-> Opt(updates.isDefault, address.isDefault),
     tag |-> IF updates.tag # <<>> THEN updates.tag ELSE address.tag]

\* loadAddressList(): the list becomes the one mock address, which is the default
mockAddresses ==
    << [id |-> 1, name |-> "ZhangSan", isDefault |-> TRUE, tag |-> <<"home">>] >>

loadAddressList ==
    /\ addressList' = mockAddresses
    /\ UNCHANGED <<addressToast, cartVars>>
    /\ UNCHANGED exceptUser

addAddressKeepingDefaults(address) ==
    /\ Len(addressList) < MaxAddresses
    /\ LET newAddress == [id |-> now, name |-> address.name,
                          isDefault |-> address.isDefault, tag |-> address.tag]
       IN addressList' = Append(addressList, newAddress)
    /\ addressToast' = ToastAdded
    /\ UNCHANGED cartVars
    /\ UNCHANGED exceptUser

\* addAddress(address): id from the clock; a new default address clears the default
\* flag of every address in the list before it is pushed
addAddress(address) ==
    /\ Len(addressList) < MaxAddresses
    /\ LET newAddress == [id |-> now, name |-> address.name,
                          isDefault |-> address.isDefault, tag |-> address.tag]
           others == IF newAddress.isDefault THEN WithoutDefault(addressList) ELSE addressList
       IN addressList' = Append(others, newAddress)
    /\ addressToast' = ToastAdded
    /\ UNCHANGED cartVars
    /\ UNCHANGED exceptUser

\* updateAddress(addressId, updates): nothing when no address has the id; otherwise
\* updates.isDefault clears every default flag first, then the address is replaced
updateAddress(addressId, updates) ==
    LET addressIndex == AddressIndex(addressId)
    IN /\ IF addressIndex > 0
          THEN LET cleared == IF updates.isDefault = <<TRUE>>
                              THEN WithoutDefault(addressList) ELSE addressList
               IN /\ addressList' =
                        [cleared EXCEPT ![addressIndex] = Updated(cleared[addressIndex], updates)]
                  /\ addressToast' = ToastUpdated
          ELSE UNCHANGED <<addressList, addressToast>>
       /\ UNCHANGED cartVars
       /\ UNCHANGED exceptUser

\* deleteAddress(addressId): the first address with the id is spliced out
deleteAddress(addressId) ==
    LET addressIndex == AddressIndex(addressId)
    IN /\ IF addressIndex > 0
          THEN /\ addressList' = Splice1(addressList, addressIndex)
               /\ addressToast' = ToastDeleted
          ELSE UNCHANGED <<addressList, addressToast>>
       /\ UNCHANGED cartVars
       /\ UNCHANGED exceptUser

UserInit ==
    /\ addressList = <<>>
    /\ addressToast = ""

\* ------------------------------------------------- user store: login state
\* JavaScript values held by the store and by device storage
Null == [t |-> "null"]

False == [t |-> "false"]

True == [t |-> "true"]

\* A UserInfo: id and nickname; avatar, memberLevel and points are carried along
\* exactly as nickname is. "user" stands for the default nickname '用户'.
UserInfo(nickname) == [t |-> "user", id |-> 1, nickname |-> nickname]

\* if (v): null and false are falsy, objects and true are truthy
IsTruthy(v) == v.t \notin {"null", "false", "undefined"}

\* loginData.userInfo?.nickName of the login data a caller passes (<<>>: no userInfo)
LoginDatas == {<<>>, <<"">>, <<"Ann">>}

\* What device storage may hold under the two keys when the app starts or another
\* page wrote them: nothing, a falsy value, or a value stored by an earlier login
StoredUserInfos == {<<>>, <<Null>>, <<UserInfo("Old")>>}

StoredLoginStatuses == {<<>>, <<False>>, <<True>>}

NoOrders ==
    [waitingPayment |-> 0, waitingShipment |-> 0, waitingReceive |-> 0, waitingComment |-> 0]

\* loadOrderStats(): the mock statistics
mockOrderStats ==
    [waitingPayment |-> 2, waitingShipment |-> 1, waitingReceive |-> 3, waitingComment |-> 1]

NoReads == [userInfo |-> <<>>, isLoggedIn |-> <<>>]

LoginSettled == loginPc \in {"resolved", "rejected"}

LogoutSettled == logoutPc \in {"resolved", "rejected"}

\* await Promise.all([loadAddressList(), loadOrderStats()]): both run to their end
\* when called
LoadUserData ==
    /\ addressList' = mockAddresses
    /\ orderStats' = mockOrderStats

\* login(loginData) up to its first await: the store is logged in, then
\* Taro.setStorage({ key: 'userInfo' }) is awaited
login(loginData) ==
    /\ loginPc = "idle" \/ LoginSettled
    /\ LET nickname == IF loginData # <<>> /\ loginData[1] # "" THEN loginData[1] ELSE "user"
       IN /\ mockUserInfo' = UserInfo(nickname)
          /\ userInfo' = UserInfo(nickname)
    /\ isLoggedIn' = TRUE
    /\ loginPc' = "setUserInfo"
    /\ UNCHANGED <<addressList, addressToast, orderStats, storedUserInfo, storedLoginStatus,
                   logoutPc, checkPc, checkReads>>
    /\ UNCHANGED exceptLogin

\* setStorage of 'userInfo' settles: stored, and setStorage of 'isLoggedIn' is awaited;
\* or failed, and login rejects with the error
LoginUserInfoStored(ok) ==
    /\ loginPc = "setUserInfo"
    /\ IF ok
       THEN /\ storedUserInfo' = <<mockUserInfo>>
            /\ loginPc' = "setIsLoggedIn"
       ELSE /\ loginPc' = "rejected"
            /\ UNCHANGED storedUserInfo
    /\ UNCHANGED <<addressList, addressToast, userInfo, isLoggedIn, orderStats,
                   storedLoginStatus, mockUserInfo, logoutPc, checkPc, checkReads>>
    /\ UNCHANGED exceptLogin

\* setStorage of 'isLoggedIn' settles: stored, the user data is loaded and login
\* resolves with mockUserInfo; or failed, and login rejects with the error
LoginStatusStored(ok) ==
    /\ loginPc = "setIsLoggedIn"
    /\ IF ok
       THEN /\ storedLoginStatus' = <<True>>
            /\ LoadUserData
            /\ loginPc' = "resolved"
       ELSE /\ loginPc' = "rejected"
            /\ UNCHANGED <<storedLoginStatus, addressList, orderStats>>
    /\ UNCHANGED <<addressToast, userInfo, isLoggedIn, storedUserInfo, mockUserInfo,
                   logoutPc, checkPc, checkReads>>
    /\ UNCHANGED exceptLogin

\* logout() up to its first await: the store is cleared, then
\* Taro.removeStorage({ key: 'userInfo' }) is awaited
logout ==
    /\ logoutPc = "idle" \/ LogoutSettled
    /\ userInfo' = Null
    /\ isLoggedIn' = FALSE
    /\ addressList' = <<>>
    /\ orderStats' = NoOrders
    /\ logoutPc' = "removeUserInfo"
    /\ UNCHANGED <<addressToast, storedUserInfo, storedLoginStatus,
                   loginPc, mockUserInfo, checkPc, checkReads>>
    /\ UNCHANGED exceptLogin

\* removeStorage of 'userInfo' settles: removed, and removeStorage of 'isLoggedIn'
\* is awaited; or failed, and logout rejects
LogoutUserInfoRemoved(ok) ==
    /\ logoutPc = "removeUserInfo"
    /\ IF ok
       THEN /\ storedUserInfo' = <<>>
            /\ logoutPc' = "removeIsLoggedIn"
       ELSE /\ logoutPc' = "rejected"
            /\ UNCHANGED storedUserInfo
    /\ UNCHANGED <<addressList, addressToast, userInfo, isLoggedIn, orderStats,
                   storedLoginStatus, loginPc, mockUserInfo, checkPc, checkReads>>
    /\ UNCHANGED exceptLogin

\* removeStorage of 'isLoggedIn' settles: removed, the toast '已退出登录' is shown and
\* logout resolves; or failed, and logout rejects
LogoutStatusRemoved(ok) ==
    /\ logoutPc = "removeIsLoggedIn"
    /\ IF ok
       THEN /\ storedLoginStatus' = <<>>
            /\ addressToast' = "logged out"
            /\ logoutPc' = "resolved"
       ELSE /\ logoutPc' = "rejected"
            /\ UNCHANGED <<storedLoginStatus, addressToast>>
    /\ UNCHANGED <<addressList, userInfo, isLoggedIn, orderStats,
                   storedUserInfo, loginPc, mockUserInfo, checkPc, checkReads>>
    /\ UNCHANGED exceptLogin

\* checkLoginStatus() up to its await: both storage reads are issued
checkLoginStatus ==
    /\ checkPc \in {"idle", "resolved"}
    /\ checkPc' = "reading"
    /\ checkReads' = NoReads
    /\ UNCHANGED <<addressList, addressToast, userInfo, isLoggedIn, orderStats,
                   storedUserInfo, storedLoginStatus, loginPc, mockUserInfo, logoutPc>>
    /\ UNCHANGED exceptLogin

\* What one read yields: the stored data, or on failure the fallback of its .catch
ReadOf(key, ok) ==
    IF key = "userInfo"
    THEN IF ok THEN storedUserInfo[1] ELSE Null
    ELSE IF ok THEN storedLoginStatus[1] ELSE False

RestorableEither(reads) ==
    IsTruthy(reads.isLoggedIn[1]) \/ IsTruthy(reads.userInfo[1])

\* if (storedLoginStatus.data && storedUserInfo.data)
Restorable(reads) ==
    IsTruthy(reads.isLoggedIn[1]) /\ IsTruthy(reads.userInfo[1])

\* One of the two reads settles (a read of a missing key fails). When it is the
\* second, Promise.all resolves: if both data are truthy the store is logged in with
\* the stored user and the user data is loaded; then checkLoginStatus resolves.
CheckReadSettles(key, ok) ==
    /\ checkPc = "reading"
    /\ checkReads[key] = <<>>
    /\ ok => (IF key = "userInfo" THEN storedUserInfo ELSE storedLoginStatus) # <<>>
    /\ LET reads == [checkReads EXCEPT ![key] = <<ReadOf(key, ok)>>]
       IN /\ checkReads' = reads
          /\ IF reads.userInfo = <<>> \/ reads.isLoggedIn = <<>>
             THEN UNCHANGED <<checkPc, userInfo, isLoggedIn, addressList, orderStats>>
             ELSE /\ checkPc' = "resolved"
                  /\ IF Restorable(reads)
                     THEN /\ userInfo' = reads.userInfo[1]
                          /\ isLoggedIn' = TRUE
                          /\ LoadUserData
                     ELSE UNCHANGED <<userInfo, isLoggedIn, addressList, orderStats>>
    /\ UNCHANGED <<addressToast, storedUserInfo, storedLoginStatus,
                   loginPc, mockUserInfo, logoutPc>>
    /\ UNCHANGED exceptLogin

\* The two keys as another page or an earlier run of the app left them, while no
\* call of the store is in flight
StorageWritten(u, l) ==
    /\ loginPc = "idle" \/ LoginSettled
    /\ logoutPc = "idle" \/ LogoutSettled
    /\ checkPc \in {"idle", "resolved"}
    /\ <<u, l>> # <<storedUserInfo, storedLoginStatus>>
    /\ storedUserInfo' = u
    /\ storedLoginStatus' = l
    /\ UNCHANGED <<addressList, addressToast, userInfo, isLoggedIn, orderStats,
                   loginPc, mockUserInfo, logoutPc, checkPc, checkReads>>
    /\ UNCHANGED exceptLogin

LoginInit ==
    /\ userInfo = Null
    /\ isLoggedIn = FALSE
    /\ orderStats = NoOrders
    /\ storedUserInfo = <<>>
    /\ storedLoginStatus = <<>>
    /\ loginPc = "idle"
    /\ mockUserInfo = Null
    /\ logoutPc = "idle"
    /\ checkPc = "idle"
    /\ checkReads = NoReads

\* =================================================================== retry helper
\* What fn() settles with: a result it resolves with, or an error it rejects with
FnResults == {[t |-> "result", data |-> d] : d \in {1, 2}}

FnErrors == {ErrorOf("x"), ErrorOf("y")}

\* The maxRetries a caller passes: a negative one, none, and up to the bound
RetryCounts == (-1)..MaxRetries

\* The delay a caller passes, in milliseconds
RetryDelays == {0, 1000}

FnSettled(ok, v) == [e |-> "fn", ok |-> ok, v |-> v, ms |-> 0]

Slept(ms) == [e |-> "sleep", ok |-> TRUE, v |-> Undefined, ms |-> ms]

RetrySettled == retryPc \in {"resolved", "rejected"}

\* retry(fn, maxRetries, delay) up to its first await: with 0 <= maxRetries the
\* loop is entered and fn invoked, otherwise lastError (undefined) is thrown
retry(maxRetries, delay) ==
    /\ retryPc = "idle" \/ RetrySettled
    /\ retryArgs' = [maxRetries |-> maxRetries, delay |-> delay]
    /\ retryI' = 0
    /\ lastError' = Undefined
    /\ retryHistory' = <<>>
    /\ IF 0 <= maxRetries
       THEN /\ retryPc' = "fn"
            /\ invocations' = 1
            /\ retryResult' = Undefined
       ELSE /\ retryPc' = "rejected"
            /\ invocations' = 0
            /\ retryResult' = Undefined
    /\ UNCHANGED exceptRetry

\* await fn() resolves: return its result
FnResolves(v) ==
    /\ retryPc = "fn"
    /\ retryPc' = "resolved"
    /\ retryResult' = v
    /\ retryHistory' = Append(retryHistory, FnSettled(TRUE, v))
    /\ UNCHANGED <<retryArgs, retryI, lastError, invocations>>
    /\ UNCHANGED exceptRetry

FnRejectsSleepingAlways(error) ==
    /\ retryPc = "fn"
    /\ lastError' = error
    /\ retryHistory' = Append(retryHistory, FnSettled(FALSE, error))
    /\ IF retryI <= retryArgs.maxRetries
       THEN /\ retryPc' = "sleep"
            /\ UNCHANGED <<retryI, retryResult>>
       ELSE /\ retryPc' = "rejected"
            /\ retryI' = retryI + 1
            /\ retryResult' = error
    /\ UNCHANGED <<retryArgs, invocations>>
    /\ UNCHANGED exceptRetry

\* await fn() rejects: the error is kept; before the last turn of the loop the call
\* sleeps, after the last turn the loop ends and lastError is thrown
FnRejects(error) ==
    /\ retryPc = "fn"
    /\ lastError' = error
    /\ retryHistory' = Append(retryHistory, FnSettled(FALSE, error))
    /\ IF retryI < retryArgs.maxRetries
       THEN /\ retryPc' = "sleep"
            /\ UNCHANGED <<retryI, retryResult>>
       ELSE /\ retryPc' = "rejected"
            /\ retryI' = retryI + 1
            /\ retryResult' = error
    /\ UNCHANGED <<retryArgs, invocations>>
    /\ UNCHANGED exceptRetry

\* await sleep(delay) is over: i++, and as i <= maxRetries, fn is invoked again
SleepSettles ==
    /\ retryPc = "sleep"
    /\ retryHistory' = Append(retryHistory, Slept(retryArgs.delay))
    /\ retryI' = retryI + 1
    /\ IF retryI + 1 <= retryArgs.maxRetries
       THEN /\ retryPc' = "fn"
            /\ invocations' = invocations + 1
            /\ retryResult' = Undefined
       ELSE /\ retryPc' = "rejected"
            /\ retryResult' = lastError
            /\ UNCHANGED invocations
    /\ UNCHANGED <<retryArgs, lastError>>
    /\ UNCHANGED exceptRetry

RetryInit ==
    /\ retryPc = "idle"
    /\ retryArgs = [maxRetries |-> 3, delay |-> 1000]
    /\ retryI = 0
    /\ lastError = Undefined
    /\ retryResult = Undefined
    /\ invocations = 0
    /\ retryHistory = <<>>

\* All stores as constructed
Init == CartInit /\ HttpInit /\ UploadInit /\ ProductInit /\ SearchInit /\ UserInit /\ LoginInit /\ RetryInit

CartNext ==
    \/ \E product \in Products, q \in Quantities :
          \E s \in SkusOf(product.productId) : addToCart(product, q, s)
    \/ \E id \in ItemIds : removeFromCart(id)
    \/ \E id \in ItemIds, q \in (-1)..MaxQty : updateQuantity(id, q)
    \/ \E id \in ItemIds, sel \in OptBool : toggleItemSelection(id, sel)
    \/ \E sel \in OptBool : toggleSelectAll(sel)
    \/ clearCart
    \/ clearSelectedItems
    \/ Tick

SpecCart == Init /\ [][CartNext]_vars

HttpNext ==
    \/ \E c \in DefaultPatches : setDefaultConfig(c)
    \/ \E i \in RequestKinds : addRequestInterceptor(i)
    \/ \E i \in ResponseKinds : addResponseInterceptor(i)
    \/ \E i \in ErrorKinds : addErrorInterceptor(i)
    \/ \E tok \in Tokens : StoreToken(tok)
    \/ \E c \in CallConfigs : request(c)
    \/ RequestInterceptorStep
    \/ TokenLookupSettles
    \/ Send
    \/ \E statusCode \in StatusCodes : TransportResponds(statusCode)
    \/ \E errMsg \in ErrMsgs : TransportFails(errMsg)
    \/ ResponseInterceptorStep
    \/ Resolve
    \/ ErrorInterceptorStep
    \/ Reject

SpecHttp == Init /\ [][HttpNext]_vars

\* The request() calls made on the client that uploads: header and needToken vary
LaterCallConfigs == {c \in CallConfigs : c.showLoading = <<>> /\ c.showError = <<>>}

\* request(config) once the last upload() has settled
requestAfterUpload(config) ==
    /\ UploadIdle
    /\ request(config)

\* upload() and request() on one client
UploadNext ==
    \/ setDefaultHeader(ClientHeader)
    \/ \E tok \in Tokens : StoreToken(tok)
    \/ \E c \in UploadConfigs : upload(c)
    \/ UploadTokenSettles
    \/ \E data \in UploadBodies : UploadResponds(data)
    \/ \E errMsg \in ErrMsgs : UploadFails(errMsg)
    \/ \E c \in LaterCallConfigs : requestAfterUpload(c)
    \/ RequestInterceptorStep
    \/ TokenLookupSettles
    \/ Send
    \/ \E statusCode \in StatusCodes : TransportResponds(statusCode)
    \/ \E errMsg \in ErrMsgs : TransportFails(errMsg)
    \/ ResponseInterceptorStep
    \/ Resolve
    \/ ErrorInterceptorStep
    \/ Reject

SpecUpload == Init /\ [][UploadNext]_vars

ProductNext ==
    \/ \E mock \in mockProducts : loadProducts(mock)
    \/ \E keyword \in SearchKeywords, mock \in mockProducts : searchProducts(keyword, mock)
    \/ \E filters \in FilterPatches, mock \in mockProducts : setFilters(filters, mock)
    \/ \E mock \in mockProducts : clearFilters(mock)

SpecProduct == Init /\ [][ProductNext]_vars

\* The product store with the products each load generates for its page
PagingNext ==
    \/ loadProducts(MockPage(1))
    \/ loadMoreProducts
    \/ \E keyword \in SearchKeywords : searchProducts(keyword, MockPage(1))
    \/ \E filters \in FilterPatches : setFilters(filters, MockPage(1))
    \/ clearFilters(MockPage(1))

SpecPaging == Init /\ [][PagingNext]_vars

SearchNext ==
    \/ \E text \in SearchTexts : handleSearch(text)
    \/ \E c \in 1..MaxInFlight : GetStorageSettles(c)
    \/ \E c \in 1..MaxInFlight : SetStorageSettles(c)
    \/ clearSearchHistory

SpecSearch == Init /\ [][SearchNext]_vars

UserNext ==
    \/ loadAddressList
    \/ \E address \in NewAddresses : addAddress(address)
    \/ \E id \in AddressIds, updates \in AddressUpdates : updateAddress(id, updates)
    \/ \E id \in AddressIds : deleteAddress(id)
    \/ Tick

SpecUser == Init /\ [][UserNext]_vars

LoginNext ==
    \/ \E loginData \in LoginDatas : login(loginData)
    \/ \E ok \in BOOLEAN : LoginUserInfoStored(ok)
    \/ \E ok \in BOOLEAN : LoginStatusStored(ok)
    \/ logout
    \/ \E ok \in BOOLEAN : LogoutUserInfoRemoved(ok)
    \/ \E ok \in BOOLEAN : LogoutStatusRemoved(ok)
    \/ checkLoginStatus
    \/ \E key \in {"userInfo", "isLoggedIn"}, ok \in BOOLEAN : CheckReadSettles(key, ok)
    \/ \E u \in StoredUserInfos, l \in StoredLoginStatuses : StorageWritten(u, l)

SpecLogin == Init /\ [][LoginNext]_vars

RetryNext ==
    \/ \E maxRetries \in RetryCounts, delay \in RetryDelays : retry(maxRetries, delay)
    \/ \E v \in FnResults : FnResolves(v)
    \/ \E error \in FnErrors : FnRejects(error)
    \/ SleepSettles

\* fn's promise settles and the timer of sleep fires
FnSettles == (\E v \in FnResults : FnResolves(v)) \/ (\E error \in FnErrors : FnRejects(error))

SpecRetry ==
    Init /\ [][RetryNext]_vars /\ WF_vars(FnSettles) /\ WF_vars(SleepSettles)

\* =================================================================== cart claims

\* The line item of the current addToCart run, as a set of indices (one or none)
RunLines ==
    {i \in 1..Len(items) :
        items[i].productId = addRun.productId /\ items[i].skuId = addRun.skuId}

\* C1 (as stated): over a run of addToCart calls on one product+sku identity that
\* starts with no such line in the cart, a call rejects exactly when the running
\* total of the requested quantities first exceeds the item's stock, and after
\* every call that did not reject the line's quantity is that running total.
C1_AddRunSumOrRejectAtStock ==
    addRun.active =>
        /\ addRun.rejected <=> (addRun.sum > ProductStock[addRun.productId])
        /\ ~addRun.rejected =>
              /\ RunLines # {}
              /\ \A i \in RunLines : items[i].quantity = addRun.sum

\* C2 (as stated): every line item of every reachable cart has quantity <= stock.
C2_QuantityWithinStock ==
    \A i \in 1..Len(items) : items[i].quantity <= items[i].stock

\* C3 (as stated): selectAll is the logical AND of the items' selected flags,
\* and false when the cart is empty.
C3_SelectAllIsConjunction ==
    selectAll = (Len(items) > 0 /\ \A i \in 1..Len(items) : items[i].selected)

\* The sum of F(i) over a finite set of indices
RECURSIVE IndexSum(_, _)
IndexSum(S, f) ==
    IF S = {} THEN 0
    ELSE LET i == CHOOSE x \in S : TRUE IN f[i] + IndexSum(S \ {i}, f)

\* The cart of the worked example: A(price 10, qty 2) and B(price 20, qty 1), both selected
ExampleCart ==
    /\ Len(items) = 2
    /\ \E a, b \in 1..2 :
          /\ items[a].price = 10 /\ items[a].quantity = 2 /\ items[a].selected
          /\ items[b].price = 20 /\ items[b].quantity = 1 /\ items[b].selected

\* C4: in every reachable cart, summary.totalPrice is the sum of price*quantity over
\* all items, summary.selectedPrice the same sum over the selected items, and
\* totalCount / selectedCount the corresponding sums of quantity; the example cart
\* gives totalCount 3, selectedCount 3, totalPrice 40, selectedPrice 40.
C4_SummaryEqualsSums ==
    LET All == 1..Len(items)
        Sel == {i \in All : items[i].selected}
        Amount == [i \in All |-> items[i].price * items[i].quantity]
        Qty == [i \in All |-> items[i].quantity]
    IN  /\ summary.totalPrice = IndexSum(All, Amount)
        /\ summary.selectedPrice = IndexSum(Sel, Amount)
        /\ summary.totalCount = IndexSum(All, Qty)
        /\ summary.selectedCount = IndexSum(Sel, Qty)
        /\ ExampleCart =>
              /\ summary.totalCount = 3 /\ summary.selectedCount = 3
              /\ summary.totalPrice = 40 /\ summary.selectedPrice = 40

\* C4 witness: the example cart is reached and its summary is the stated one
C4_ExampleCartSummary ==
    /\ ExampleCart
    /\ summary.totalCount = 3 /\ summary.selectedCount = 3
    /\ summary.totalPrice = 40 /\ summary.selectedPrice = 40

\* C5 (as stated): for any line item A of the cart, updateQuantity(A.id, q) with
\* q <= 0 removes A (and only A), so that a lookup by A's id then finds nothing.
C5_NonPositiveQuantityRemovesLine ==
    [][\A a \in 1..Len(items), q \in (-1)..0 :
          updateQuantity(items[a].id, q) =>
              /\ items' = Splice1(items, a)
              /\ \A j \in 1..Len(items') : items'[j].id # items[a].id]_vars

\* C18 (as stated): summary.totalSavings is the sum, over the selected items whose
\* originalPrice is present (any defined value, 0 included), of
\* (originalPrice - price) * quantity; unselected items and items without
\* originalPrice contribute nothing.
C18_SavingsOverPresentOriginalPrice ==
    LET All == 1..Len(items)
        Counted == {i \in All : items[i].selected /\ items[i].originalPrice # <<>>}
        Saving == [i \in Counted |->
                      (items[i].originalPrice[1] - items[i].price) * items[i].quantity]
    IN  summary.totalSavings = IndexSum(Counted, Saving)

\* C20: when addToCart or updateQuantity rejects with the insufficient-stock error,
\* the cart state (the items with every quantity and selected flag, and selectAll)
\* is exactly what it was before the call.
C20_RejectionLeavesCartUnchanged ==
    [][thrown' => (items' = items /\ selectAll' = selectAll)]_vars

\* C20 witness: a call has just rejected with the insufficient-stock error
C20_InsufficientStockThrown ==
    /\ thrown
    /\ \E i \in 1..Len(items) : items[i].quantity <= items[i].stock

\* =================================================================== HTTP claims


\* The request interceptors of a chain applied in order to a config (no one throwing)
RECURSIVE ComposeRequest(_, _, _)
ComposeRequest(chain, config, tok) ==
    IF chain = <<>> THEN config
    ELSE ComposeRequest(Tail(chain), RunRequestInterceptor(Head(chain), config, tok).config, tok)

\* The response interceptors of a chain applied in order to a value (no one throwing)
RECURSIVE ComposeResponse(_, _)
ComposeResponse(chain, v) ==
    IF chain = <<>> THEN v
    ELSE ComposeResponse(Tail(chain), RunResponseInterceptor(Head(chain), v).value)

\* The error interceptors of a chain applied in order to an error
RECURSIVE ComposeError(_, _)
ComposeError(chain, error) ==
    IF chain = <<>> THEN error
    ELSE ComposeError(Tail(chain), RunErrorInterceptor(Head(chain), error))

\* The part of a config that Taro.request is given
TransportView(config) == [url |-> config.url, method |-> config.method, header |-> config.header]

\* The config as the caller passed it, read as a RequestConfig
OriginalConfig ==
    [url |-> callConfig.url, method |-> "GET",
     header |-> Opt(callConfig.header, EmptyHeader),
     showLoading |-> Opt(callConfig.showLoading, FALSE),
     showError |-> Opt(callConfig.showError, FALSE),
     needToken |-> Opt(callConfig.needToken, FALSE)]

TransportCalled == transportConfig # NotCalled

\* The interceptors registered after construction
ExtraRequestInterceptors == Tail(requestInterceptors)

\* C6 (as stated): with request interceptors f1, f2 registered in that order, the
\* config passed to the transport equals f2(f1(originalConfig)), originalConfig being
\* the config the caller passed to request().
C6_TransportGetsF2F1OfOriginal ==
    (TransportCalled /\ Len(ExtraRequestInterceptors) = 2) =>
        transportConfig =
            TransportView(ComposeRequest(ExtraRequestInterceptors, OriginalConfig, token))

\* C6 (amended): the config passed to the transport is the url, method and header of
\* f2(f1(d(m))), where m is the merged config (the defaults overlaid by the caller's
\* config, the url prefixed by the base URL), d is the default request interceptor
\* registered at construction, and f1, f2 follow in registration order.
C6_TransportGetsChainOfMerged ==
    TransportCalled =>
        transportConfig =
            TransportView(ComposeRequest(ExtraRequestInterceptors,
                DefaultRequestInterceptor(MergeConfig(defaultConfig, callConfig), token),
                token))

\* C6 witness: f1 = appendA and f2 = appendB registered in that order, transport called
C6_TwoInterceptorsReachTransport ==
    /\ TransportCalled
    /\ requestInterceptors = <<"default", "appendA", "appendB">>
    /\ transportConfig.url = BASE_URL \o <<"/p", "a", "b">>

Failed == caught # Undefined

\* C7 (as stated): a call that failed at any stage passes the error through every
\* error interceptor in registration order and rejects with the final value; it never
\* resolves.
C7_FailureRejectsWithFinalError ==
    (pc = "settled" /\ Failed) =>
        /\ outcome = "rejected"
        /\ value = ComposeError(errorInterceptors, caught)

\* C8 (as stated): a call that showed the loading indicator has hidden it by the
\* time it settles, on every exit path and for every set of request interceptors.
C8_LoadingHiddenWhenSettled ==
    (pc = "settled" /\ shows > 0) => (hides > 0 /\ ~loadingVisible)

TransportFailed == transportResult.t = "object"

TransportStatus == IF transportResult.t = "response" THEN transportResult.statusCode ELSE 0

\* C9: a call rejects whenever the transport fails and whenever the status is outside
\* [200,300); it resolves only when the status is in [200,300), and then with the
\* response body as passed on by the response interceptors registered after
\* construction -- whatever interceptors were registered.
C9_RejectsUnlessStatus2xx ==
    pc = "settled" =>
        /\ (TransportFailed \/ (transportResult.t = "response" /\ TransportStatus \notin 200..299))
              => outcome = "rejected"
        /\ outcome = "resolved" =>
              /\ TransportStatus \in 200..299
              /\ value = ComposeResponse(Tail(responseInterceptors), Body)

\* C9 witness: status 300 rejected with interceptors registered after construction
C9_Status300Rejected ==
    /\ pc = "settled"
    /\ outcome = "rejected"
    /\ TransportStatus = 300
    /\ Len(responseInterceptors) > 1
    /\ Len(errorInterceptors) > 1

\* The call's showError: the per-call config overriding the instance default
EffectiveShowError == Opt(callConfig.showError, defaultConfig.showError)

\* C10 (as stated): when a call fails, a toast is shown iff the call's effective
\* showError flag is true.
C10_ToastIffEffectiveShowError ==
    (pc = "settled" /\ outcome = "rejected") => ((toast # <<>>) <=> EffectiveShowError)

\* C10 (amended): when a call fails, a toast is shown iff showError of the merged
\* config object, as the request interceptors left it, is true and the final error
\* of the error chain carries a non-empty message (the toast's title); with only the
\* default request and error interceptors registered that is iff the effective
\* showError flag is true.
C10_ToastIffShowErrorAndMessage ==
    (pc = "settled" /\ outcome = "rejected") =>
        LET final == ComposeError(errorInterceptors, caught)
            titled == ~IsNullish(final) /\ Message(final) # ""
        IN  /\ (toast # <<>>) <=> (mergedConfig.showError /\ titled)
            /\ toast # <<>> => toast = <<Message(final)>>
            /\ (Len(requestInterceptors) = 1 /\ Len(errorInterceptors) = 1)
                  => ((toast # <<>>) <=> EffectiveShowError)

\* C10 witness: a failed call with showError in force and no toast, the final error
\* having no message
C10_ShowErrorWithoutToast ==
    /\ pc = "settled"
    /\ outcome = "rejected"
    /\ EffectiveShowError
    /\ mergedConfig.showError
    /\ toast = <<>>

\* C11 (as stated): every request handed to the transport carries the header
\* Content-Type: application/json, and carries Authorization: Bearer <token> whenever
\* a token is present in device storage under key 'token', for every caller-supplied
\* config (caller-supplied headers and the needToken flag included).
C11_TransportCarriesJsonAndBearer ==
    TransportCalled =>
        LET header == transportConfig.header
        IN  /\ "Content-Type" \in DOMAIN header
            /\ header["Content-Type"] = "application/json"
            /\ token # "none" =>
                  /\ "Authorization" \in DOMAIN header
                  /\ header["Authorization"] = <<"Bearer ", token>>

\* The call's needToken: the per-call config overriding the instance default
EffectiveNeedToken == Opt(callConfig.needToken, defaultConfig.needToken)

NoToken == token \in {"none", ""}

\* The header the merge gives the call: config.header, or the instance default
\* header when the call passes none
MergedHeader == Opt(callConfig.header, DefaultHeader(defaultConfig))

\* The Content-Type the call's header supplies ("": none)
CallerContentType ==
    IF "Content-Type" \in DOMAIN MergedHeader THEN MergedHeader["Content-Type"] ELSE ""

\* C11 (amended): every request handed to the transport carries a Content-Type
\* header, which is the one the call's header supplies (config.header, or the
\* instance default header when the call passes none) and application/json
\* otherwise; when the call's needToken flag (per-call value over the instance
\* default) is true and a non-empty token is stored under key 'token' it carries
\* Authorization: Bearer <token>, and otherwise it carries an Authorization header
\* only if the call's header holds one (no later request interceptor rewriting header).
C11_TransportCarriesDefaultedHeaders ==
    TransportCalled =>
        LET header == transportConfig.header
        IN  /\ "Content-Type" \in DOMAIN header
            /\ header["Content-Type"] =
                  IF CallerContentType # "" THEN CallerContentType ELSE "application/json"
            /\ IF EffectiveNeedToken /\ ~NoToken
               THEN /\ "Authorization" \in DOMAIN header
                    /\ header["Authorization"] = <<"Bearer ", token>>
               ELSE ("Authorization" \in DOMAIN header)
                        <=> ("Authorization" \in DOMAIN MergedHeader)

\* C11 witness: a call with its own Content-Type and a stored token reaches the
\* transport with the caller's Content-Type and the bearer token
C11_CallerContentTypeSent ==
    /\ TransportCalled
    /\ CallerContentType = "text/plain"
    /\ token = "tok"
    /\ EffectiveNeedToken
    /\ transportConfig.header["Content-Type"] = "text/plain"
    /\ "Authorization" \in DOMAIN transportConfig.header

Rejected == pc = "settled" /\ outcome = "rejected"

\* C12 (as stated): every error with which request() rejects has the normalized
\* shape {message, cause}: a user-facing message string plus the original failure
\* under the field named cause.
C12_RejectsWithMessageAndCause ==
    Rejected =>
        /\ "message" \in DOMAIN value
        /\ "cause" \in DOMAIN value
        /\ value.message # ""
        /\ value.cause = caught

\* C12 (amended): with only the default error interceptor registered, every error
\* with which request() rejects (the failure being an object) has the shape
\* {message, error}: a non-empty user-facing message string plus the original
\* failure under the field named error.
C12_RejectsWithMessageAndError ==
    (Rejected /\ Len(errorInterceptors) = 1) =>
        /\ DOMAIN value = {"t", "message", "error"}
        /\ value.message # ""
        /\ value.error = caught

\* C12 witness: a transport timeout rejected as {message, error} by the default chain
C12_TimeoutRejectedWithError ==
    /\ Rejected
    /\ Len(errorInterceptors) = 1
    /\ caught = TransportFailure("request:fail timeout")
    /\ value.error = caught
    /\ value.message = "request timed out, check the network connection"

\* The entry before position p of the call's history
Before(p) == log[p - 1]

\* C19: within one request() call the pipeline stages are strictly sequential:
\* request interceptor k+1 is not invoked until interceptor k's result has settled;
\* the transport is not invoked before the last request interceptor has settled; no
\* response interceptor is invoked before the transport has returned; error
\* interceptors are invoked only after a failure; each chain runs in registration
\* order, and nothing is invoked while an earlier invocation is unsettled.
C19_StagesStrictlySequential ==
    \A p \in 1..Len(log) :
        LET e == log[p]
        IN  /\ (e.event = "invoked" /\ e.stage = "request") =>
                  IF e.index = 1 THEN p = 1
                  ELSE Before(p) = Ev("request", e.index - 1, "fulfilled")
            /\ (e.event = "invoked" /\ e.stage = "transport") =>
                  /\ p > 1
                  /\ Before(p) = Ev("request", Len(requestInterceptors), "fulfilled")
            /\ (e.event = "invoked" /\ e.stage = "response") =>
                  /\ p > 1
                  /\ Before(p) = IF e.index = 1 THEN Ev("transport", 0, "fulfilled")
                                 ELSE Ev("response", e.index - 1, "fulfilled")
            /\ (e.event = "invoked" /\ e.stage = "error") =>
                  /\ p > 1
                  /\ IF e.index = 1 THEN Before(p).event = "rejected"
                     ELSE Before(p) = Ev("error", e.index - 1, "settled")
            /\ e.event # "invoked" =>
                  /\ p > 1
                  /\ Before(p) = Ev(e.stage, e.index, "invoked")

\* C19 witness: a settled call that went through two request interceptors, the
\* transport, two response interceptors (the second failing) and the error chain
C19_AllStagesRun ==
    /\ pc = "settled"
    /\ Len(requestInterceptors) = 2
    /\ Len(responseInterceptors) = 2
    /\ Len(log) = 12
    /\ log[4] = Ev("request", 2, "fulfilled")
    /\ log[5] = Ev("transport", 0, "invoked")
    /\ log[10] = Ev("response", 2, "rejected")
    /\ log[12] = Ev("error", 1, "settled")

\* C21: a failure of the token lookup never fails a request: while key 'token' is
\* missing from storage (getStorage rejects), no default request interceptor rejects,
\* and a call that reaches the transport carries the defaulted headers (the call's,
\* completed with Content-Type: application/json) and no Authorization header.
C21_LookupFailureNeverFailsRequest ==
    token = "none" =>
        /\ \A p \in DOMAIN log :
              (log[p].stage = "request" /\ log[p].event = "rejected") =>
                  requestInterceptors[log[p].index] # "default"
        /\ TransportCalled =>
              /\ transportConfig.header =
                    MergedHeader @@ ("Content-Type" :> "application/json")
              /\ "Authorization" \notin DOMAIN transportConfig.header

\* C24: for every call to request(), the loading indicator is hidden as many times
\* as the call showed it (0 or 1): never hidden without having been shown, never
\* hidden twice.
C24_HiddenAsOftenAsShown ==
    /\ shows <= 1
    /\ hides <= shows
    /\ pc = "settled" => hides = shows

\* C27: upload() leaves the client's default configuration and the caller's config
\* object unchanged, header maps included; so a request() or upload() made with
\* needToken = false, or with no token in storage, never carries an Authorization
\* header (the callers' own headers carry none).
C27_UploadLeavesConfigsAlone ==
    /\ [][/\ uploadPc' # uploadPc => defaultConfig' = defaultConfig
          /\ uploadPc \in {"token", "transport"} => uploadConfig' = uploadConfig
          /\ (uploadPc' = "transport" /\ uploadPc # "transport"
                  /\ (~uploadMerged'.needToken \/ NoToken)) =>
                 "Authorization" \notin DOMAIN uploadSent'[1].header]_vars
    /\ [](TransportCalled /\ (~EffectiveNeedToken \/ NoToken) =>
              "Authorization" \notin DOMAIN transportConfig.header)

\* =================================================================== product claims

\* The elements of a sequence
Range(seq) == {seq[i] : i \in DOMAIN seq}

\* A product satisfies every criterion the filters set
Satisfies(product, filters) ==
    /\ filters.keyword # <<>> => MatchesKeyword(product, filters.keyword[1])
    /\ filters.categoryId # <<>> => product.categoryId = filters.categoryId[1]
    /\ filters.minPrice # <<>> => filters.minPrice[1] <= product.price
    /\ filters.maxPrice # <<>> => product.price <= filters.maxPrice[1]
    /\ filters.tags # <<>> => SharesTag(product, filters.tags[1])

\* The filters cut down to some of their criteria
Only(filters, fields) ==
    [f \in DOMAIN filters |-> IF f \in fields THEN filters[f] ELSE <<>>]

Criteria == {"keyword", "categoryId", "minPrice", "maxPrice", "tags"}

\* C13 (as stated): for every product list and filter criteria (numeric ids and
\* bounds equal to 0 included), filteredProducts contains exactly the products that
\* satisfy all set criteria (keyword match, category equality,
\* minPrice <= price <= maxPrice inclusive, tag overlap), and the result for two
\* combined criteria is the intersection of the results for each alone.
C13_ExactlyTheProductsSatisfyingAll ==
    /\ Len(filteredProducts) = Cardinality(Range(filteredProducts))
    /\ Range(filteredProducts) =
          {product \in Range(productList) : Satisfies(product, searchFilters)}
    /\ \A f1, f2 \in Criteria :
          Range(FilteredProducts(productList, Only(searchFilters, {f1, f2}))) =
              Range(FilteredProducts(productList, Only(searchFilters, {f1})))
                  \cap Range(FilteredProducts(productList, Only(searchFilters, {f2})))

Reverse(seq) == [i \in 1..Len(seq) |-> seq[Len(seq) + 1 - i]]

Prices(seq) == [i \in 1..Len(seq) |-> seq[i].price]

SortedBy(sortBy) == FilteredProducts(productList, [searchFilters EXCEPT !.sortBy = <<sortBy>>])

\* The products the filter steps keep, in productList order
Kept == Filtered(productList, searchFilters)

\* Where a product stands in productList (the products of a list are distinct)
PositionOf(product) == CHOOSE i \in DOMAIN productList : productList[i] = product

NoPriceTies == \A i, j \in DOMAIN Kept : i # j => Kept[i].price # Kept[j].price

\* C14 (as stated): for any input list, ties in price included, filteredProducts
\* with sortBy = 'price_asc' reversed equals filteredProducts with
\* sortBy = 'price_desc'.
C14_AscendingReversedIsDescending ==
    Reverse(SortedBy("price_asc")) = SortedBy("price_desc")

\* C14 (amended): for any input list in which no two products passing the filters
\* have the same price, filteredProducts with sortBy = 'price_asc' reversed equals
\* filteredProducts with sortBy = 'price_desc'; with ties the two agree on the
\* sequence of prices, products of equal price keeping their productList order in
\* both.
C14_ReversedEqualsDescendingUpToTies ==
    /\ Prices(Reverse(SortedBy("price_asc"))) = Prices(SortedBy("price_desc"))
    /\ NoPriceTies => Reverse(SortedBy("price_asc")) = SortedBy("price_desc")
    /\ \A sortBy \in {"price_asc", "price_desc"} :
          \A i, j \in DOMAIN SortedBy(sortBy) :
              (i < j /\ SortedBy(sortBy)[i].price = SortedBy(sortBy)[j].price) =>
                  PositionOf(SortedBy(sortBy)[i]) < PositionOf(SortedBy(sortBy)[j])

\* C14 witness: two products of different price listed cheapest first and sorted
\* by price_desc
C14_DescendingSortActed ==
    /\ searchFilters.sortBy = <<"price_desc">>
    /\ Len(Kept) = 2
    /\ Kept[1].price < Kept[2].price
    /\ filteredProducts = Reverse(Kept)
    /\ Reverse(SortedBy("price_asc")) = filteredProducts

\* a ranks strictly before b: recommended first, then hot, then new
RanksBefore(a, b) ==
    \/ Truthy(a.isRecommend) /\ ~Truthy(b.isRecommend)
    \/ /\ Truthy(a.isRecommend) = Truthy(b.isRecommend)
       /\ Truthy(a.isHot) /\ ~Truthy(b.isHot)
    \/ /\ Truthy(a.isRecommend) = Truthy(b.isRecommend)
       /\ Truthy(a.isHot) = Truthy(b.isHot)
       /\ Truthy(a.isNew) /\ ~Truthy(b.isNew)

\* C15: with sortBy unset or 'default', recommended products precede
\* non-recommended ones; among products of equal recommend, hot precede non-hot;
\* among products of equal recommend and hot, new precede non-new; and products
\* equal on all three keep their relative order from productList.
C15_DefaultOrderRanksAndIsStable ==
    searchFilters.sortBy \in {<<>>, <<"default">>} =>
        /\ Range(filteredProducts) = Range(Kept)
        /\ Len(filteredProducts) = Len(Kept)
        /\ \A i, j \in DOMAIN filteredProducts :
              i < j =>
                  /\ ~RanksBefore(filteredProducts[j], filteredProducts[i])
                  /\ ~RanksBefore(filteredProducts[i], filteredProducts[j]) =>
                        PositionOf(filteredProducts[i]) < PositionOf(filteredProducts[j])

\* C15 witness: a recommended product listed after a plain one comes first
C15_RecommendedMovedFirst ==
    /\ searchFilters.sortBy \in {<<>>, <<"default">>}
    /\ Len(productList) = 2
    /\ filteredProducts = Reverse(productList)
    /\ Truthy(filteredProducts[1].isRecommend)

\* The ids of the listed products, in list order
ListedIds == [i \in DOMAIN productList |-> productList[i].id]

\* The ids 1..10 * pages
FirstIds(pages) == [i \in 1..(MockPageLength * pages) |-> i]

\* C29: starting from a fresh loadProducts(), each loadMoreProducts() call that
\* passes its guard advances pagination.page by exactly one and appends the next
\* consecutive page: from a list holding the ids 1..10 * page, the call leaves
\* page + 1 and the ids 1..10 * (page + 1), no page skipped.
C29_LoadMoreAdvancesOnePage ==
    [][(productList # <<>> /\ ListedIds = FirstIds(pagination.page)
            /\ Len(productList') > Len(productList)) =>
          /\ pagination'.page = pagination.page + 1
          /\ ListedIds' = FirstIds(pagination.page + 1)]_vars

\* =================================================================== search claims

\* The list stored under key 'searchHistory' (none stored: the empty list)
StoredHistory == IF searchHistory # <<>> THEN searchHistory[1] ELSE <<>>

\* The keywords searched so far
Searched == {w \in DOMAIN lastSearched : lastSearched[w] > 0}

\* The keywords searched more recently than w
MoreRecent(w) == {v \in Searched : lastSearched[v] > lastSearched[w]}

C26_OverlappingSearchesBothKept ==
    [][\A c \in DOMAIN calls :
          (calls[c].pc = "set" /\ calls' = Splice1(calls, c) /\ ~calls[c].cleared) =>
              \A v \in calls[c].overlaps \ {calls[c].keyword} :
                  (\A d \in DOMAIN calls' : calls'[d].keyword # v) =>
                      {v, calls[c].keyword} \subseteq Range(searchHistory'[1])]_vars

\* =================================================================== user claims
Defaults == {i \in DOMAIN addressList : addressList[i].isDefault}

\* C17: in every state reachable by loadAddressList, addAddress, updateAddress and
\* deleteAddress, at most one address of addressList has isDefault = true.
C17_AtMostOneDefault == Cardinality(Defaults) <= 1

\* C17's case: the loaded default address lost its flag to an address added or made
\* default after it
C17_DefaultMoved ==
    /\ Len(addressList) >= 2
    /\ addressList[1].id = 1
    /\ addressList[1].tag = <<"home">>
    /\ ~addressList[1].isDefault
    /\ \E i \in 2..Len(addressList) : addressList[i].isDefault

\* =================================================================== login claims
StoreState == <<userInfo, isLoggedIn, addressList, orderStats>>

\* C23: checkLoginStatus never rejects; when either of the keys 'userInfo' and
\* 'isLoggedIn' is missing (the read fails) or holds a falsy value it leaves userInfo,
\* isLoggedIn, addressList and orderStats unchanged; it sets isLoggedIn = true only
\* when both stored values are present.
C23_CheckRestoresOnlyFromBothKeys ==
    [][(checkPc' # checkPc \/ checkReads' # checkReads) =>
          /\ checkPc' \in {"reading", "resolved"}
          /\ StoreState' # StoreState =>
                /\ checkPc = "reading" /\ checkPc' = "resolved"
                /\ IsTruthy(checkReads'.userInfo[1])
                /\ IsTruthy(checkReads'.isLoggedIn[1])
                /\ userInfo' = checkReads'.userInfo[1]
                /\ isLoggedIn']_vars

\* C23's case: 'userInfo' holds a user but 'isLoggedIn' holds false; checkLoginStatus
\* has resolved and the store is still logged out
C23_FalsyStatusNotRestored ==
    /\ checkPc = "resolved"
    /\ checkReads = [userInfo |-> <<UserInfo("Old")>>, isLoggedIn |-> <<False>>]
    /\ loginPc = "idle"
    /\ ~isLoggedIn
    /\ userInfo = Null

\* C25: under any interleaving of login, logout and checkLoginStatus, every state
\* with isLoggedIn = false has userInfo = null, an empty addressList and all
\* orderStats counters 0.
C25_LoggedOutHoldsNoUserData ==
    ~isLoggedIn => (userInfo = Null /\ addressList = <<>> /\ orderStats = NoOrders)

\* C28: when login() rejects, the store is left logged out: isLoggedIn is false and
\* userInfo is null.
C28_RejectedLoginLeavesLoggedOut ==
    [][(loginPc' = "rejected" /\ loginPc # "rejected") =>
          (~isLoggedIn' /\ userInfo' = Null)]_vars

\* =================================================================== retry claims
RetryRunning == retryPc \in {"fn", "sleep"}

\* The fn() calls that have settled
FnCallsSettled == invocations - (IF retryPc = "fn" THEN 1 ELSE 0)

\* What holds of one retry call at every moment: fn invoked at most maxRetries + 1
\* times; settled invocations and sleeps alternate, each sleep lasting delay; only
\* the last settled invocation can be a success; the call resolves at once with the
\* first success, and rejects only after maxRetries + 1 failures, with the last error
RetryBounded ==
    /\ invocations <= retryArgs.maxRetries + 1
    /\ Len(retryHistory) = FnCallsSettled + (IF FnCallsSettled = 0 THEN 0 ELSE FnCallsSettled - 1)
                              + (IF retryPc = "fn" /\ FnCallsSettled > 0 THEN 1 ELSE 0)
    /\ \A p \in DOMAIN retryHistory :
          /\ p % 2 = 1 => retryHistory[p].e = "fn"
          /\ p % 2 = 0 => retryHistory[p] = Slept(retryArgs.delay)
          /\ retryHistory[p].ok /\ retryHistory[p].e = "fn" =>
                 p = Len(retryHistory) /\ retryPc = "resolved"
    /\ retryPc = "resolved" =>
          /\ retryHistory # <<>>
          /\ retryHistory[Len(retryHistory)] = FnSettled(TRUE, retryResult)
    /\ retryPc = "rejected" =>
          /\ invocations = (IF retryArgs.maxRetries < 0 THEN 0 ELSE retryArgs.maxRetries + 1)
          /\ invocations > 0 =>
                 retryHistory[Len(retryHistory)] = FnSettled(FALSE, retryResult)

\* C22: retry(fn, maxRetries, delay) always terminates after invoking fn at most
\* maxRetries + 1 times: it resolves with the result of the first successful
\* invocation and invokes fn no more after that; if every invocation fails it rejects
\* with the error of the last one; it waits the fixed delay between consecutive
\* attempts and not after the final one.
C22_RetryTerminatesWithinBound == []RetryBounded /\ (RetryRunning ~> RetrySettled)

\* C22's case: every one of the maxRetries + 1 = 3 invocations failed, with a sleep
\* between them, and the call rejected with the last error
C22_RejectedAfterLastAttempt ==
    /\ retryPc = "rejected"
    /\ retryArgs = [maxRetries |-> 2, delay |-> 1000]
    /\ invocations = 3
    /\ Len(retryHistory) = 5
    /\ retryResult = ErrorOf("y")
    /\ retryHistory[1] = FnSettled(FALSE, ErrorOf("x"))

\* C30 (as stated): in every reachable cart state all line items have pairwise
\* distinct ids, so removeFromCart(id), updateQuantity(id, q) and
\* toggleItemSelection(id) each address exactly one line, even when two different
\* products are added within the same clock tick.
C30_LineIdsPairwiseDistinct ==
    \A i, j \in 1..Len(items) : items[i].id = items[j].id => i = j

====
